---------------------------- MODULE Spec2Model ----------------------------
(***************************************************************************)
(* Model of the appinit binary-distribution service                        *)
(* (infra/lambda_functions/download_handler.py and its helpers).           *)
(*                                                                         *)
(* Python strings are modelled as sequences of one-character strings, so   *)
(* that lower(), the `in` substring test and f-string concatenation are    *)
(* computed rather than assumed.  A key that a dict does not hold, or an   *)
(* environment variable that is not set, is the value Missing.             *)
(***************************************************************************)
EXTENDS Naturals, Sequences, FiniteSets, TLC

VARIABLES
    env,         \* os.environ of the download Lambda
    bucket,      \* set of keys of the objects stored in the S3 bucket
    event,       \* the API Gateway event handed to the code
    op,          \* the operation applied last ("input" before any)
    detected,    \* result of the two _detect_*_from_user_agent functions
    resolved,    \* result of _get_platform_and_arch
    binary_key,  \* result of _construct_binary_key
    response,    \* what lambda_handler returned (or the exception it raised)
    calls,       \* S3 client calls issued by the last handler invocation
    metadata,    \* the objects of the bucket as S3 lists them (key, size, time)
    procs,       \* handler invocations in flight in concurrent containers
    stack,       \* construction of BinaryDistributionStack (cdk synth)
    deploy,      \* a run of scripts/build_and_deploy.py
    refresher,   \* a DependencyRefresher of scripts/upgrade_dependencies.py
    iam,         \* the IAM resources of the AWS account
    setup,       \* a run of scripts/setup_github_oidc.py
    shell        \* an execution of the rendered install script

vars == <<env, bucket, event, op, detected, resolved, binary_key, response, calls,
          metadata, procs, stack, deploy, refresher, iam, setup, shell>>

\* The state outside the request the resolver and the download handler work on.
restVars == <<metadata, procs, stack, deploy, refresher, iam, setup, shell>>

NotStarted == [pc |-> "idle"]

RestIdle ==
    /\ metadata = <<>>
    /\ procs = <<>>
    /\ stack = NotStarted
    /\ deploy = NotStarted
    /\ refresher = NotStarted
    /\ iam = NotStarted
    /\ setup = NotStarted
    /\ shell = NotStarted

-----------------------------------------------------------------------------
(* Bounds of the model. *)

\* A User-Agent string is a concatenation of at most MaxUAParts fragments.
MaxUAParts == 2

-----------------------------------------------------------------------------
(* String literals of the source. *)

Missing == <<"<missing>">>

S_empty == <<>>
S_linux == <<"l","i","n","u","x">>
S_darwin == <<"d","a","r","w","i","n">>
S_windows == <<"w","i","n","d","o","w","s">>
S_mac == <<"m","a","c">>
S_win == <<"w","i","n">>
S_amd64 == <<"a","m","d","6","4">>
S_arm64 == <<"a","r","m","6","4">>
S_aarch64 == <<"a","a","r","c","h","6","4">>
S_exe == <<".","e","x","e">>
S_appinit == <<"a","p","p","i","n","i","t","-">>
S_dash == <<"-">>
S_slash == <<"/">>
S_3600 == <<"3","6","0","0">>
S_404 == <<"4","0","4">>
S_NoSuchKey == <<"N","o","S","u","c","h","K","e","y">>
S_InternalServerError == <<"I","n","t","e","r","n","a","l"," ","s","e","r","v","e","r"," ","e","r","r","o","r">>
S_CheckListEndpoint == <<"C","h","e","c","k"," ","/","l","i","s","t"," ","e","n","d","p","o","i","n","t">>
S_BinaryNotFoundFor == <<"B","i","n","a","r","y"," ","n","o","t"," ","f","o","u","n","d"," ","f","o","r"," ">>

-----------------------------------------------------------------------------
(* Python built-ins used by the handlers. *)

UpperCase == {"A","B","C","D","E","F","G","H","I","J","K","L","M",
              "N","O","P","Q","R","S","T","U","V","W","X","Y","Z"}

LowerOf == [c \in UpperCase |->
    CASE c = "A" -> "a" [] c = "B" -> "b" [] c = "C" -> "c" [] c = "D" -> "d"
      [] c = "E" -> "e" [] c = "F" -> "f" [] c = "G" -> "g" [] c = "H" -> "h"
      [] c = "I" -> "i" [] c = "J" -> "j" [] c = "K" -> "k" [] c = "L" -> "l"
      [] c = "M" -> "m" [] c = "N" -> "n" [] c = "O" -> "o" [] c = "P" -> "p"
      [] c = "Q" -> "q" [] c = "R" -> "r" [] c = "S" -> "s" [] c = "T" -> "t"
      [] c = "U" -> "u" [] c = "V" -> "v" [] c = "W" -> "w" [] c = "X" -> "x"
      [] c = "Y" -> "y" [] c = "Z" -> "z"]

\* str.lower()
lower(s) == [i \in 1..Len(s) |-> IF s[i] \in UpperCase THEN LowerOf[s[i]] ELSE s[i]]

\* `keyword in s` for two str values
contains(s, keyword) ==
    \E i \in 0..(Len(s) - Len(keyword)) :
        \A j \in 1..Len(keyword) : s[i + j] = keyword[j]

\* any(keyword in s for keyword in keywords), keywords a tuple
any_keyword_in(s, keywords) ==
    \E k \in 1..Len(keywords) : contains(s, keywords[k])

-----------------------------------------------------------------------------
(* download_handler.py: platform / architecture resolution and the key. *)

\* dict.get(key, default): `value` is what the dict holds under the key
get(value, default) == IF value = Missing THEN default ELSE value

\* truth value of a str
truthy(s) == Len(s) > 0

\* The `platforms` dict, its items in insertion order: <<platform, keywords>>
platforms_windows_first ==
    << <<S_windows, <<S_windows, S_win>> >>, <<S_darwin, <<S_darwin, S_mac>> >> >>

platforms ==
    << <<S_darwin, <<S_darwin, S_mac>> >>, <<S_windows, <<S_windows, S_win>> >> >>

\* The `architectures` dict
architectures ==
    << <<S_arm64, <<S_arm64, S_aarch64>> >> >>

\* for name, keywords in table.items(): if any(...): return name
\* return default
RECURSIVE first_match(_, _, _, _)
first_match(table, i, user_agent, default) ==
    IF i > Len(table) THEN default
    ELSE IF any_keyword_in(user_agent, table[i][2]) THEN table[i][1]
    ELSE first_match(table, i + 1, user_agent, default)

detect_platform_from_user_agent(user_agent) ==
    first_match(platforms, 1, lower(user_agent), S_linux)

detect_arch_from_user_agent(user_agent) ==
    first_match(architectures, 1, lower(user_agent), S_amd64)

\* What a call produced: a returned (platform, arch) pair or a raised exception.
Returned(platform, arch) ==
    [status |-> "returned", exc |-> "", platform |-> platform, arch |-> arch]

Raised(exc) ==
    [status |-> "raised", exc |-> exc, platform |-> Missing, arch |-> Missing]

NotCalled ==
    [status |-> "unset", exc |-> "", platform |-> Missing, arch |-> Missing]

EmptyDict == [kind |-> "dict", platform |-> Missing, arch |-> Missing]

\* event.get("queryStringParameters") or {}
query_params_of(ev) ==
    IF ev.queryStringParameters.kind = "dict" THEN ev.queryStringParameters
    ELSE EmptyDict

get_platform_and_arch_ua_overrides(ev) ==
    LET query_params == query_params_of(ev)
        platform == get(query_params.platform, S_empty)
        arch == get(query_params.arch, S_empty)
    IN  IF ev.headers.kind = "null" THEN Raised("AttributeError")
        ELSE LET user_agent == IF ev.headers.kind = "absent" THEN S_empty
                               ELSE get(ev.headers.user_agent, S_empty)
             IN  IF truthy(user_agent)
                 THEN Returned(detect_platform_from_user_agent(user_agent),
                               detect_arch_from_user_agent(user_agent))
                 ELSE Returned(IF truthy(platform) THEN platform ELSE S_linux,
                               IF truthy(arch) THEN arch ELSE S_amd64)

\* _get_platform_and_arch(event).  event.get("headers", {}) is {} when the key
\* is absent and None when the event holds null; None.get raises AttributeError.
get_platform_and_arch(ev) ==
    LET query_params == query_params_of(ev)
        platform == get(query_params.platform, S_empty)
        arch == get(query_params.arch, S_empty)
    IN  IF truthy(platform) /\ truthy(arch) THEN Returned(platform, arch)
        ELSE IF ev.headers.kind = "null" THEN Raised("AttributeError")
        ELSE LET user_agent == IF ev.headers.kind = "absent" THEN S_empty
                               ELSE get(ev.headers.user_agent, S_empty)
             IN  Returned(IF ~truthy(platform)
                              THEN detect_platform_from_user_agent(user_agent)
                              ELSE platform,
                          IF ~truthy(arch)
                              THEN detect_arch_from_user_agent(user_agent)
                              ELSE arch)

construct_binary_key_exe_any_case(platform, arch) ==
    LET suffix == IF lower(platform) = S_windows THEN S_exe ELSE S_empty
    IN  S_appinit \o platform \o S_dash \o arch \o suffix

\* _construct_binary_key(platform, arch)
construct_binary_key(platform, arch) ==
    LET suffix == IF platform = S_windows THEN S_exe ELSE S_empty
    IN  S_appinit \o platform \o S_dash \o arch \o suffix

-----------------------------------------------------------------------------
(* Inputs: the request events the code is applied to. *)

X_Windows == <<"W","i","n","d","o","w","s">>
X_freebsd == <<"f","r","e","e","b","s","d">>
X_x86_64 == <<"x","8","6","_","6","4">>
X_amd64exe == <<"a","m","d","6","4",".","e","x","e">>

\* Values of the `platform` and `arch` query parameters (Missing: not given).
PlatformParams == {Missing, S_empty, S_linux, S_darwin, S_windows, X_Windows, X_freebsd}

ArchParams == {Missing, S_empty, S_amd64, S_arm64, X_x86_64, X_amd64exe}

P_Mac == <<"M","a","c">>
P_DARWIN == <<"D","A","R","W","I","N">>
P_Win == <<"W","i","n">>
P_dows == <<"d","o","w","s">>
P_AArch64 == <<"A","A","r","c","h","6","4">>

\* Fragments User-Agent strings are built from ("Win" \o "dows" = "Windows").
UAParts == {P_Mac, P_DARWIN, P_Win, P_dows, S_arm64, P_AArch64}

RECURSIVE UAOfParts(_)
UAOfParts(n) ==
    IF n = 0 THEN {S_empty}
    ELSE LET shorter == UAOfParts(n - 1)
         IN  shorter \cup {s \o p : s \in shorter, p \in UAParts}

UserAgents == UAOfParts(MaxUAParts)

QueryParamValues ==
    {[kind |-> "absent", platform |-> Missing, arch |-> Missing],
     [kind |-> "null", platform |-> Missing, arch |-> Missing]}
    \cup {[kind |-> "dict", platform |-> p, arch |-> a] :
            p \in PlatformParams, a \in ArchParams}

HeaderValues(uas) ==
    {[kind |-> "absent", user_agent |-> Missing],
     [kind |-> "null", user_agent |-> Missing]}
    \cup {[kind |-> "dict", user_agent |-> ua] : ua \in uas \cup {Missing}}

Events(uas) ==
    {[queryStringParameters |-> q, headers |-> h] :
        q \in QueryParamValues, h \in HeaderValues(uas)}

-----------------------------------------------------------------------------
(* The functions applied to an event. *)

S_BucketName == <<"a","p","p","i","n","i","t","-","b","i","n","a","r","i","e","s">>

NoDetection == [platform |-> Missing, arch |-> Missing]

NoResponse == [unset |-> TRUE]

\* The environment the stack gives the download function.
StackEnv == [BUCKET_NAME |-> S_BucketName, PRESIGNED_URL_EXPIRY |-> S_3600]

Init ==
    /\ env = StackEnv
    /\ bucket = {}
    /\ event \in Events(UserAgents)
    /\ op = "input"
    /\ detected = NoDetection
    /\ resolved = NotCalled
    /\ binary_key = Missing
    /\ response = NoResponse
    /\ calls = <<>>
    /\ RestIdle

\* Both detection functions applied to the event's User-Agent header.
DetectFromUserAgent ==
    /\ op = "input"
    /\ event.headers.kind = "dict"
    /\ event.headers.user_agent # Missing
    /\ detected' = [platform |-> detect_platform_from_user_agent(event.headers.user_agent),
                    arch |-> detect_arch_from_user_agent(event.headers.user_agent)]
    /\ op' = "detect"
    /\ UNCHANGED <<env, bucket, event, resolved, binary_key, response, calls>>
    /\ UNCHANGED restVars

\* platform, arch = _get_platform_and_arch(event)
GetPlatformAndArch ==
    /\ op = "input"
    /\ resolved' = get_platform_and_arch(event)
    /\ op' = "resolve"
    /\ UNCHANGED <<env, bucket, event, detected, binary_key, response, calls>>
    /\ UNCHANGED restVars

\* binary_key = _construct_binary_key(platform, arch)
ConstructBinaryKey ==
    /\ op = "resolve"
    /\ resolved.status = "returned"
    /\ binary_key' = construct_binary_key(resolved.platform, resolved.arch)
    /\ op' = "key"
    /\ UNCHANGED <<env, bucket, event, detected, resolved, response, calls>>
    /\ UNCHANGED restVars

Next ==
    \/ DetectFromUserAgent
    \/ GetPlatformAndArch
    \/ ConstructBinaryKey

Spec == Init /\ [][Next]_vars

-----------------------------------------------------------------------------
(* download_handler.py: lambda_handler and the S3 client it calls. *)

Digits == {"0","1","2","3","4","5","6","7","8","9"}

DigitValue == [c \in Digits |->
    CASE c = "0" -> 0 [] c = "1" -> 1 [] c = "2" -> 2 [] c = "3" -> 3
      [] c = "4" -> 4 [] c = "5" -> 5 [] c = "6" -> 6 [] c = "7" -> 7
      [] c = "8" -> 8 [] c = "9" -> 9]

\* int(text) raises ValueError unless text is a decimal literal
is_int_literal(text) ==
    Len(text) > 0 /\ \A i \in 1..Len(text) : text[i] \in Digits

\* int(text) for a decimal literal
RECURSIVE int_of(_)
int_of(text) ==
    IF Len(text) = 0 THEN 0
    ELSE 10 * int_of(SubSeq(text, 1, Len(text) - 1)) + DigitValue[text[Len(text)]]

\* Outcomes of an S3 client call: it returns, raises botocore's ClientError
\* with an error code, or raises another exception (a connection error, ...).
Ok == [kind |-> "ok", code |-> <<>>]

ClientError(code) == [kind |-> "ClientError", code |-> code]

OtherException == [kind |-> "Exception", code |-> <<>>]

\* s3_client.head_object(Bucket=bucket_name, Key=key): `s3` is the condition
\* of the backend during the invocation, `objects` the keys the bucket holds.
head_object(objects, key, s3) ==
    IF s3.head_fault.kind # "ok" THEN s3.head_fault
    ELSE IF key \in objects THEN Ok
    ELSE ClientError(s3.not_found_code)

\* What a pre-signed URL is signed for.
PresignedUrl(bucket_name, key, expires_in) ==
    [method |-> "get_object", Bucket |-> bucket_name, Key |-> key,
     ExpiresIn |-> expires_in]

\* s3_client.generate_presigned_url("get_object", Params=..., ExpiresIn=...)
generate_presigned_url(bucket_name, key, expires_in, s3) ==
    IF s3.presign_fault.kind # "ok" THEN s3.presign_fault
    ELSE [kind |-> "ok", code |-> <<>>,
          url |-> PresignedUrl(bucket_name, key, expires_in)]

\* A response dict; `body` is the object json.dumps serialises.
Redirect(presigned_url) ==
    [statusCode |-> 302,
     headers |-> ("Location" :> presigned_url) @@ ("Content-Type" :> "application/json"),
     body |-> [url |-> presigned_url]]

NotFound(platform, arch) ==
    [statusCode |-> 404,
     body |-> [error |-> S_BinaryNotFoundFor \o platform \o S_slash \o arch,
               available_binaries |-> S_CheckListEndpoint]]

InternalServerError ==
    [statusCode |-> 500, body |-> [error |-> S_InternalServerError]]

\* An exception that leaves lambda_handler.
Raise(exc) == [raised |-> exc]

except_clauses_leak_code(exc, platform, arch) ==
    IF exc.kind = "ClientError" /\ exc.code \in {S_NoSuchKey, S_404}
    THEN NotFound(platform, arch)
    ELSE [statusCode |-> 500, body |-> [error |-> exc.code]]

except_clauses_only_404(exc, platform, arch) ==
    IF exc.kind = "ClientError"
    THEN IF exc.code = S_404
         THEN NotFound(platform, arch)
         ELSE InternalServerError
    ELSE InternalServerError

\* The two except clauses of lambda_handler, for an exception raised in the
\* try block.
except_clauses(exc, platform, arch) ==
    IF exc.kind = "ClientError"
    THEN IF exc.code \in {S_NoSuchKey, S_404}
         THEN NotFound(platform, arch)
         ELSE InternalServerError
    ELSE InternalServerError

delete_object_call(api, bucket_name, key, outcome) ==
    [api |-> "delete_object", Bucket |-> bucket_name, Key |-> key, outcome |-> outcome]

\* A call of the S3 client, with what it gave.
Call(api, bucket_name, key, outcome) ==
    [api |-> api, Bucket |-> bucket_name, Key |-> key, outcome |-> outcome]

Invocation(resp, res, key, log) ==
    [response |-> resp, resolved |-> res, binary_key |-> key, calls |-> log]

\* The try block of lambda_handler.
try_block(bucket_name, presigned_url_expiry, res, key, objects, s3) ==
    LET head == head_object(objects, key, s3)
        head_call == Call("head_object", bucket_name, key, head)
    IN  IF head.kind # "ok"
        THEN Invocation(except_clauses(head, res.platform, res.arch),
                        res, key, <<head_call>>)
        ELSE LET signed == generate_presigned_url(bucket_name, key,
                                                  presigned_url_expiry, s3)
                 sign_call == Call("generate_presigned_url", bucket_name, key, signed)
             IN  IF signed.kind # "ok"
                 THEN Invocation(except_clauses(signed, res.platform, res.arch),
                                 res, key, <<head_call, sign_call>>)
                 ELSE Invocation(Redirect(signed.url),
                                 res, key, <<head_call, sign_call>>)

presigned_url_expiry_ignores_environ(environ) == int_of(S_3600)

\* presigned_url_expiry = int(os.environ.get("PRESIGNED_URL_EXPIRY", "3600")),
\* for a value int() accepts
presigned_url_expiry_of(environ) ==
    int_of(get(environ.PRESIGNED_URL_EXPIRY, S_3600))

\* lambda_handler(event, _context) of download_handler.py
lambda_handler(ev, environ, objects, s3) ==
    IF environ.BUCKET_NAME = Missing
    THEN Invocation(Raise("KeyError"), NotCalled, Missing, <<>>)
    ELSE LET bucket_name == environ.BUCKET_NAME
             expiry_text == get(environ.PRESIGNED_URL_EXPIRY, S_3600)
         IN  IF ~is_int_literal(expiry_text)
             THEN Invocation(Raise("ValueError"), NotCalled, Missing, <<>>)
             ELSE LET res == get_platform_and_arch(ev)
                  IN  IF res.status = "raised"
                      THEN Invocation(Raise(res.exc), res, Missing, <<>>)
                      ELSE try_block(bucket_name, presigned_url_expiry_of(environ), res,
                                     construct_binary_key(res.platform, res.arch),
                                     objects, s3)

-----------------------------------------------------------------------------
(* Inputs of the download handler. *)

X_403 == <<"4","0","3">>
X_60 == <<"6","0">>
X_abc == <<"a","b","c">>

\* Values of os.environ for the download function.
Environments ==
    {StackEnv,
     [BUCKET_NAME |-> Missing, PRESIGNED_URL_EXPIRY |-> S_3600],
     [BUCKET_NAME |-> S_BucketName, PRESIGNED_URL_EXPIRY |-> Missing],
     [BUCKET_NAME |-> S_BucketName, PRESIGNED_URL_EXPIRY |-> X_60],
     [BUCKET_NAME |-> S_BucketName, PRESIGNED_URL_EXPIRY |-> X_abc]}

K_linux_amd64 == <<"a","p","p","i","n","i","t","-","l","i","n","u","x","-","a","m","d","6","4">>
K_windows_amd64 == <<"a","p","p","i","n","i","t","-","w","i","n","d","o","w","s","-","a","m","d","6","4",".","e","x","e">>
K_darwin_arm64 == <<"a","p","p","i","n","i","t","-","d","a","r","w","i","n","-","a","r","m","6","4">>
K_freebsd_amd64 == <<"a","p","p","i","n","i","t","-","f","r","e","e","b","s","d","-","a","m","d","6","4">>

\* Contents of the bucket: empty, some of the released binaries, and a bucket
\* that also holds a binary for a platform outside the documented set.
Buckets ==
    {{},
     {K_linux_amd64, K_windows_amd64, K_darwin_arm64},
     {K_linux_amd64, K_freebsd_amd64}}

\* Conditions of the S3 backend during one invocation.
S3Conditions ==
    [head_fault : {Ok, ClientError(X_403), OtherException},
     not_found_code : {S_404, S_NoSuchKey},
     presign_fault : {Ok, ClientError(X_403), OtherException}]

\* User-Agent headers of the download requests: none or one fragment.
HandlerUserAgents == {S_empty} \cup UAParts

InitDownload ==
    /\ env \in Environments
    /\ bucket \in Buckets
    /\ event \in Events(HandlerUserAgents)
    /\ op = "input"
    /\ detected = NoDetection
    /\ resolved = NotCalled
    /\ binary_key = Missing
    /\ response = NoResponse
    /\ calls = <<>>
    /\ RestIdle

\* One invocation of the download Lambda.
DownloadHandler ==
    /\ op = "input"
    /\ \E s3 \in S3Conditions :
          LET out == lambda_handler(event, env, bucket, s3)
          IN  /\ response' = out.response
              /\ resolved' = out.resolved
              /\ binary_key' = out.binary_key
              /\ calls' = out.calls
    /\ op' = "download"
    /\ UNCHANGED <<env, bucket, event, detected>>
    /\ UNCHANGED restVars

NextDownload == DownloadHandler

SpecDownload == InitDownload /\ [][NextDownload]_vars

-----------------------------------------------------------------------------
(* list_handler.py *)

S_DownloadUrlTemplate == <<"h","t","t","p","s",":","/","/","y","o","u","r","-","a","p","i","-","u","r","l","/","d","o","w","n","l","o","a","d","?","p","l","a","t","f","o","r","m","=","<","p","l","a","t","f","o","r","m",">","&","a","r","c","h","=","<","a","r","c","h",">">>
S_BUCKET_NAME == <<"B","U","C","K","E","T","_","N","A","M","E">>
S_quote == <<"'">>

\* The LastModified of an object: a timezone-aware UTC datetime, or None when
\* the listing entry has no such key.
Datetime(year, month, day, hour, minute, second) ==
    [present |-> TRUE, year |-> year, month |-> month, day |-> day,
     hour |-> hour, minute |-> minute, second |-> second]

NoDatetime ==
    [present |-> FALSE, year |-> 0, month |-> 0, day |-> 0,
     hour |-> 0, minute |-> 0, second |-> 0]

DigitChar == <<"0","1","2","3","4","5","6","7","8","9">>

\* "%02d" and "%04d"
pad2(n) == <<DigitChar[((n \div 10) % 10) + 1], DigitChar[(n % 10) + 1]>>

pad4(n) == pad2(n \div 100) \o pad2(n % 100)

\* datetime.isoformat() of a UTC datetime without microseconds
isoformat(dt) ==
    pad4(dt.year) \o <<"-">> \o pad2(dt.month) \o <<"-">> \o pad2(dt.day)
    \o <<"T">> \o pad2(dt.hour) \o <<":">> \o pad2(dt.minute) \o <<":">>
    \o pad2(dt.second) \o <<"+","0","0",":","0","0">>

format_binary_info_date_only(obj) ==
    [name |-> obj.Key,
     size |-> obj.Size,
     last_modified |-> IF obj.LastModified.present
                       THEN SubSeq(isoformat(obj.LastModified), 1, 10)
                       ELSE S_empty]

\* _format_binary_info(obj)
format_binary_info(obj) ==
    [name |-> obj.Key,
     size |-> obj.Size,
     last_modified |-> IF obj.LastModified.present
                       THEN isoformat(obj.LastModified)
                       ELSE S_empty]

\* An exception with the text str(e) gives.
Exception(kind, code, message) == [kind |-> kind, code |-> code, message |-> message]

\* os.environ["BUCKET_NAME"] of an unset variable: str(KeyError(k)) is repr(k)
KeyErrorOf(name) == Exception("KeyError", S_empty, S_quote \o name \o S_quote)

\* s3_client.list_objects_v2(Bucket=bucket_name): one page of at most
\* `max_keys` objects; the response has no "Contents" key when it holds none.
list_objects_v2(objects, max_keys, s3) ==
    IF s3.list_fault.kind # "ok" THEN s3.list_fault
    ELSE LET n == IF Len(objects) < max_keys THEN Len(objects) ELSE max_keys
             page == [IsTruncated |-> Len(objects) > max_keys, KeyCount |-> n]
         IN  [kind |-> "ok", code |-> S_empty, message |-> S_empty,
              response |-> IF n = 0 THEN page
                           ELSE page @@ [Contents |-> SubSeq(objects, 1, n)]]

ListCall(bucket_name, outcome) ==
    [api |-> "list_objects_v2", Bucket |-> bucket_name, outcome |-> outcome]

\* What _get_binaries_from_s3 gives: the binaries list or the exception it
\* raised, and the S3 calls it made.
Binaries(kind, value, exc, log) ==
    [kind |-> kind, binaries |-> value, exc |-> exc, calls |-> log]

\* _get_binaries_from_s3()
get_binaries_from_s3(environ, objects, max_keys, s3) ==
    IF environ.BUCKET_NAME = Missing
    THEN Binaries("raised", <<>>, KeyErrorOf(S_BUCKET_NAME), <<>>)
    ELSE LET bucket_name == environ.BUCKET_NAME
             listed == list_objects_v2(objects, max_keys, s3)
             log == <<ListCall(bucket_name, listed)>>
         IN  IF listed.kind # "ok"
             THEN Binaries("raised", <<>>, listed, log)
             ELSE IF "Contents" \in DOMAIN listed.response
             THEN Binaries("ok",
                           [i \in 1..Len(listed.response.Contents) |->
                               format_binary_info(listed.response.Contents[i])],
                           Ok, log)
             ELSE Binaries("ok", <<>>, Ok, log)

ListOk(binaries) ==
    [statusCode |-> 200,
     headers |-> ("Content-Type" :> "application/json")
                 @@ ("Access-Control-Allow-Origin" :> "*"),
     body |-> [binaries |-> binaries, download_url |-> S_DownloadUrlTemplate]]

ListError(exc) ==
    [statusCode |-> 500, body |-> [error |-> exc.message]]

list_lambda_handler_generic_error(environ, objects, max_keys, s3) ==
    LET got == get_binaries_from_s3(environ, objects, max_keys, s3)
    IN  [response |-> IF got.kind = "ok" THEN ListOk(got.binaries)
                      ELSE [statusCode |-> 500,
                            body |-> [error |-> S_InternalServerError]],
         calls |-> got.calls]

\* lambda_handler(_event, _context) of list_handler.py
list_lambda_handler(environ, objects, max_keys, s3) ==
    LET got == get_binaries_from_s3(environ, objects, max_keys, s3)
    IN  [response |-> IF got.kind = "ok" THEN ListOk(got.binaries)
                      ELSE ListError(got.exc),
         calls |-> got.calls]

\* Bounds of the listings: objects in the bucket, and objects S3 puts in one
\* page of a listing (MaxKeys).
MaxObjects == 3

MaxKeysPerPage == 2

X_AccessDenied == <<"A","c","c","e","s","s","D","e","n","i","e","d">>
X_AccessDeniedMessage == <<"A","n"," ","e","r","r","o","r"," ","o","c","c","u","r","r","e","d"," ","(","A","c","c","e","s","s","D","e","n","i","e","d",")"," ","w","h","e","n"," ","c","a","l","l","i","n","g"," ","t","h","e"," ","L","i","s","t","O","b","j","e","c","t","s","V","2"," ","o","p","e","r","a","t","i","o","n",":"," ","A","c","c","e","s","s"," ","D","e","n","i","e","d">>
X_NoSuchBucket == <<"N","o","S","u","c","h","B","u","c","k","e","t">>
X_NoSuchBucketMessage == <<"A","n"," ","e","r","r","o","r"," ","o","c","c","u","r","r","e","d"," ","(","N","o","S","u","c","h","B","u","c","k","e","t",")"," ","w","h","e","n"," ","c","a","l","l","i","n","g"," ","t","h","e"," ","L","i","s","t","O","b","j","e","c","t","s","V","2"," ","o","p","e","r","a","t","i","o","n",":"," ","T","h","e"," ","s","p","e","c","i","f","i","e","d"," ","b","u","c","k","e","t"," ","d","o","e","s"," ","n","o","t"," ","e","x","i","s","t">>
X_ConnectMessage == <<"C","o","u","l","d"," ","n","o","t"," ","c","o","n","n","e","c","t"," ","t","o"," ","t","h","e"," ","e","n","d","p","o","i","n","t"," ","U","R","L">>

D_2024 == Datetime(2024, 1, 5, 9, 3, 7)

D_2025 == Datetime(2025, 12, 31, 23, 59, 40)

\* Keys in the order S3 lists them (ascending).
KeyOrder == <<K_darwin_arm64, K_freebsd_amd64, K_linux_amd64, K_windows_amd64>>

KeyIndex(key) == CHOOSE i \in 1..Len(KeyOrder) : KeyOrder[i] = key

\* Entries of the "Contents" of a listing.
Objects ==
    [Key : {KeyOrder[i] : i \in 1..Len(KeyOrder)},
     Size : {0, 2048},
     LastModified : {NoDatetime, D_2024, D_2025}]

\* The objects of a bucket as S3 lists them: distinct keys, ascending.
Listings ==
    {listing \in UNION {[1..n -> Objects] : n \in 0..MaxObjects} :
        \A i \in 1..(Len(listing) - 1) :
            KeyIndex(listing[i].Key) < KeyIndex(listing[i + 1].Key)}

KeysOf(listing) == {listing[i].Key : i \in 1..Len(listing)}

ListOkCondition == Exception("ok", S_empty, S_empty)

\* Conditions of the S3 backend during one invocation of the list Lambda.
ListS3Conditions ==
    [list_fault : {ListOkCondition,
                   Exception("ClientError", X_AccessDenied, X_AccessDeniedMessage),
                   Exception("ClientError", X_NoSuchBucket, X_NoSuchBucketMessage),
                   Exception("Exception", S_empty, X_ConnectMessage)}]

\* Values of os.environ for the list function.
ListEnvironments ==
    {StackEnv, [BUCKET_NAME |-> Missing, PRESIGNED_URL_EXPIRY |-> Missing]}

InitList ==
    /\ env \in ListEnvironments
    /\ metadata \in Listings
    /\ bucket = KeysOf(metadata)
    /\ event \in Events({S_empty})
    /\ event.queryStringParameters.kind = "absent"
    /\ event.headers.kind = "absent"
    /\ op = "input"
    /\ detected = NoDetection
    /\ resolved = NotCalled
    /\ binary_key = Missing
    /\ response = NoResponse
    /\ calls = <<>>
    /\ procs = <<>>
    /\ stack = NotStarted
    /\ deploy = NotStarted
    /\ refresher = NotStarted
    /\ iam = NotStarted
    /\ setup = NotStarted
    /\ shell = NotStarted

\* One invocation of the list Lambda.
ListHandler ==
    /\ op = "input"
    /\ \E s3 \in ListS3Conditions :
          LET out == list_lambda_handler(env, metadata, MaxKeysPerPage, s3)
          IN  /\ response' = out.response
              /\ calls' = out.calls
    /\ op' = "list"
    /\ UNCHANGED <<env, bucket, event, detected, resolved, binary_key>>
    /\ UNCHANGED restVars

NextList == ListHandler

SpecList == InitList /\ [][NextList]_vars

-----------------------------------------------------------------------------
(* install_handler.py *)

S_localhost == <<"l","o","c","a","l","h","o","s","t">>
S_dev == <<"d","e","v">>
S_TextPlain == <<"t","e","x","t","/","p","l","a","i","n">>
S_AttachmentInstallSh == <<"a","t","t","a","c","h","m","e","n","t",";"," ","f","i","l","e","n","a","m","e","=","\"","i","n","s","t","a","l","l",".","s","h","\"">>

\* _generate_install_script(domain_name, stage): the lines of the script, as
\* str.split("\n") gives them
generate_install_script(domain_name, stage) ==
    <<
        <<"#","!","/","b","i","n","/","b","a","s","h">>,
        <<"s","e","t"," ","-","e">>,
        <<>>,
        <<"O","S","=","$","(","u","n","a","m","e"," ","-","s"," ","|"," ","t","r"," ","'","[",":","u","p","p","e","r",":","]","'"," ","'","[",":","l","o","w","e","r",":","]","'",")">>,
        <<"A","R","C","H","=","$","(","u","n","a","m","e"," ","-","m",")">>,
        <<>>,
        <<"c","a","s","e"," ","$","A","R","C","H"," ","i","n">>,
        <<" "," "," "," ","x","8","6","_","6","4",")"," ","A","R","C","H","=","\"","a","m","d","6","4","\""," ",";",";">>,
        <<" "," "," "," ","a","a","r","c","h","6","4","|","a","r","m","6","4",")"," ","A","R","C","H","=","\"","a","r","m","6","4","\""," ",";",";">>,
        <<" "," "," "," ","*",")"," ","e","c","h","o"," ","\"","U","n","s","u","p","p","o","r","t","e","d"," ","a","r","c","h","i","t","e","c","t","u","r","e",":"," ","$","A","R","C","H","\"",";"," ","e","x","i","t"," ","1"," ",";",";">>,
        <<"e","s","a","c">>,
        <<>>,
        <<"c","a","s","e"," ","$","O","S"," ","i","n">>,
        <<" "," "," "," ","d","a","r","w","i","n",")"," ","O","S","=","\"","d","a","r","w","i","n","\""," ",";",";">>,
        <<" "," "," "," ","l","i","n","u","x",")"," ","O","S","=","\"","l","i","n","u","x","\""," ",";",";">>,
        <<" "," "," "," ","*",")"," ","e","c","h","o"," ","\"","U","n","s","u","p","p","o","r","t","e","d"," ","O","S",":"," ","$","O","S","\"",";"," ","e","x","i","t"," ","1"," ",";",";">>,
        <<"e","s","a","c">>,
        <<>>,
        <<"e","c","h","o"," ","\"","D","o","w","n","l","o","a","d","i","n","g"," ","a","p","p","i","n","i","t"," ","f","o","r"," ","$","O","S","/","$","A","R","C","H",".",".",".","\"">>,
        <<>>,
        <<"D","O","W","N","L","O","A","D","_","U","R","L","=","\"","h","t","t","p","s",":","/","/">> \o domain_name \o S_slash \o stage
            \o <<"/","d","o","w","n","l","o","a","d","?","p","l","a","t","f","o","r","m","=","$","O","S","&","a","r","c","h","=","$","A","R","C","H","\"">>,
        <<"c","u","r","l"," ","-","L"," ","-","o"," ","a","p","p","i","n","i","t"," ","\"","$","D","O","W","N","L","O","A","D","_","U","R","L","\"">>,
        <<>>,
        <<"c","h","m","o","d"," ","+","x"," ","a","p","p","i","n","i","t">>,
        <<>>,
        <<"i","f"," ","["," ","-","w"," ","\"","/","u","s","r","/","l","o","c","a","l","/","b","i","n","\""," ","]",";"," ","t","h","e","n">>,
        <<" "," "," "," ","m","v"," ","a","p","p","i","n","i","t"," ","/","u","s","r","/","l","o","c","a","l","/","b","i","n","/">>,
        <<" "," "," "," ","e","c","h","o"," ","\"","a","p","p","i","n","i","t"," ","i","n","s","t","a","l","l","e","d"," ","t","o"," ","/","u","s","r","/","l","o","c","a","l","/","b","i","n","/","a","p","p","i","n","i","t","\"">>,
        <<"e","l","s","e">>,
        <<" "," "," "," ","e","c","h","o"," ","\"","a","p","p","i","n","i","t"," ","d","o","w","n","l","o","a","d","e","d"," ","t","o"," ","c","u","r","r","e","n","t"," ","d","i","r","e","c","t","o","r","y","\"">>,
        <<" "," "," "," ","e","c","h","o"," ","\"","T","o"," ","i","n","s","t","a","l","l"," ","g","l","o","b","a","l","l","y",","," ","r","u","n",":"," ","s","u","d","o"," ","m","v"," ","a","p","p","i","n","i","t"," ","/","u","s","r","/","l","o","c","a","l","/","b","i","n","/","\"">>,
        <<"f","i">>,
        <<>>,
        <<"e","c","h","o"," ","\"","I","n","s","t","a","l","l","a","t","i","o","n"," ","c","o","m","p","l","e","t","e","!"," ","R","u","n"," ","'","a","p","p","i","n","i","t"," ","-","-","h","e","l","p","'"," ","t","o"," ","g","e","t"," ","s","t","a","r","t","e","d",".","\"">>,
        <<>>
    >>

\* event.get("requestContext", {}): the default {} stands in for an absent
\* key only; a null value is returned as it is.
request_context_of(ev) ==
    IF ev.requestContext.kind = "absent"
    THEN [kind |-> "dict", domainName |-> Missing, stage |-> Missing]
    ELSE ev.requestContext

InstallOk(install_script) ==
    [statusCode |-> 200,
     headers |-> ("Content-Type" :> S_TextPlain)
                 @@ ("Content-Disposition" :> S_AttachmentInstallSh),
     body |-> install_script]

install_lambda_handler_joint_defaults(ev) ==
    LET request_context == request_context_of(ev)
    IN  IF request_context.kind = "null"
        THEN [response |-> Raise("AttributeError"), calls |-> <<>>]
        ELSE IF request_context.domainName = Missing \/ request_context.stage = Missing
        THEN [response |-> InstallOk(generate_install_script(S_localhost, S_dev)),
              calls |-> <<>>]
        ELSE [response |-> InstallOk(generate_install_script(
                               request_context.domainName, request_context.stage)),
              calls |-> <<>>]

\* lambda_handler(event, _context) of install_handler.py
install_lambda_handler(ev) ==
    LET request_context == request_context_of(ev)
    IN  IF request_context.kind = "null"
        THEN [response |-> Raise("AttributeError"), calls |-> <<>>]
        ELSE LET domain_name == get(request_context.domainName, S_localhost)
                 stage == get(request_context.stage, S_dev)
             IN  [response |-> InstallOk(generate_install_script(domain_name, stage)),
                  calls |-> <<>>]

X_example_com == <<"e","x","a","m","p","l","e",".","c","o","m">>
X_execute_api == <<"a","b","c","1","2","3",".","e","x","e","c","u","t","e","-","a","p","i",".","u","s","-","e","a","s","t","-","1",".","a","m","a","z","o","n","a","w","s",".","c","o","m">>
X_prod == <<"p","r","o","d">>
X_v1 == <<"v","1">>

\* Values of event["requestContext"]: the key absent, null, or a dict with or
\* without domainName and stage.
RequestContexts ==
    {[kind |-> "absent", domainName |-> Missing, stage |-> Missing],
     [kind |-> "null", domainName |-> Missing, stage |-> Missing]}
    \cup {[kind |-> "dict", domainName |-> d, stage |-> st] :
            d \in {Missing, X_example_com, X_execute_api},
            st \in {Missing, X_prod, X_v1}}

\* The rest of a request to /install.
InstallQueryParams ==
    {q \in QueryParamValues :
        \/ q.kind # "dict"
        \/ q.platform \in {Missing, S_windows} /\ q.arch \in {Missing, S_arm64}}

InstallEvents ==
    {[queryStringParameters |-> q, headers |-> h, requestContext |-> rc] :
        q \in InstallQueryParams, h \in HeaderValues({S_empty}),
        rc \in RequestContexts}

InitInstall ==
    /\ env \in {StackEnv}
    /\ bucket \in Buckets
    /\ event \in InstallEvents
    /\ op = "input"
    /\ detected = NoDetection
    /\ resolved = NotCalled
    /\ binary_key = Missing
    /\ response = NoResponse
    /\ calls = <<>>
    /\ RestIdle

\* One invocation of the install Lambda.
InstallHandler ==
    /\ op = "input"
    /\ LET out == install_lambda_handler(event)
       IN  /\ response' = out.response
           /\ calls' = out.calls
    /\ op' = "install"
    /\ UNCHANGED <<env, bucket, event, detected, resolved, binary_key>>
    /\ UNCHANGED restVars

NextInstall == InstallHandler

SpecInstall == InitInstall /\ [][NextInstall]_vars

-----------------------------------------------------------------------------
(* The three Lambda functions serving requests side by side: every invocation
   runs in a slot with its own locals; the S3 client, the environment and the
   bucket are what the invocations share. *)

\* Invocations in flight at the same time.
NumSlots == 2

Slots == 1..NumSlots

\* What S3 does to the objects of the bucket on a call: DeleteObject removes
\* the object of the key, the calls that read leave the objects alone.
S3Effect(objects, call) ==
    IF call.api = "delete_object" /\ call.outcome.kind = "ok"
    THEN SelectSeq(objects, LAMBDA o : o.Key # call.Key)
    ELSE objects

IdleSlot ==
    [pc |-> "idle", handler |-> "none", event |-> [unset |-> TRUE],
     s3 |-> [unset |-> TRUE], resolved |-> NotCalled, binary_key |-> Missing,
     calls |-> <<>>, response |-> NoResponse]

Returning(proc, resp) == [proc EXCEPT !.pc = "done", !.response = resp]

\* Lines 98-102 of download_handler.py: the environment, the resolver and the
\* key, all before the try block.
download_entry(proc, environ) ==
    IF environ.BUCKET_NAME = Missing
    THEN Returning(proc, Raise("KeyError"))
    ELSE IF ~is_int_literal(get(environ.PRESIGNED_URL_EXPIRY, S_3600))
    THEN Returning(proc, Raise("ValueError"))
    ELSE LET res == get_platform_and_arch(proc.event)
         IN  IF res.status = "raised"
             THEN [Returning(proc, Raise(res.exc)) EXCEPT !.resolved = res]
             ELSE [proc EXCEPT !.pc = "head",
                               !.resolved = res,
                               !.binary_key = construct_binary_key(res.platform, res.arch)]

download_head_ignores_outcome(proc, environ, objects) ==
    LET head == head_object(KeysOf(objects), proc.binary_key, proc.s3)
    IN  [proc EXCEPT !.pc = "presign",
                     !.calls = Append(@, Call("head_object", environ.BUCKET_NAME,
                                              proc.binary_key, head))]

\* Line 105: the existence check.
download_head(proc, environ, objects) ==
    LET head == head_object(KeysOf(objects), proc.binary_key, proc.s3)
        logged == [proc EXCEPT !.calls =
                      Append(@, Call("head_object", environ.BUCKET_NAME,
                                     proc.binary_key, head))]
    IN  IF head.kind # "ok"
        THEN Returning(logged, except_clauses(head, proc.resolved.platform,
                                              proc.resolved.arch))
        ELSE [logged EXCEPT !.pc = "presign"]

presign_key_of_other_invocation(ps, i) ==
    IF \E j \in DOMAIN ps : j # i /\ ps[j].binary_key # Missing
    THEN ps[CHOOSE j \in DOMAIN ps : j # i /\ ps[j].binary_key # Missing].binary_key
    ELSE ps[i].binary_key

\* The key of Params={"Bucket": bucket_name, "Key": binary_key} at line 109:
\* the local of the invocation.
presign_key(ps, i) == ps[i].binary_key

\* Lines 107-120: the pre-signed URL and the redirect.
download_presign(ps, i, environ) ==
    LET proc == ps[i]
        key == presign_key(ps, i)
        signed == generate_presigned_url(environ.BUCKET_NAME, key,
                                         presigned_url_expiry_of(environ), proc.s3)
        logged == [proc EXCEPT !.calls =
                      Append(@, Call("generate_presigned_url", environ.BUCKET_NAME,
                                     key, signed))]
    IN  IF signed.kind # "ok"
        THEN Returning(logged, except_clauses(signed, proc.resolved.platform,
                                              proc.resolved.arch))
        ELSE Returning(logged, Redirect(signed.url))

\* Line 41 of list_handler.py, inside the try block of lambda_handler.
list_entry(proc, environ) ==
    IF environ.BUCKET_NAME = Missing
    THEN Returning(proc, ListError(KeyErrorOf(S_BUCKET_NAME)))
    ELSE [proc EXCEPT !.pc = "listing"]

\* Lines 42-49 and 68-80 of list_handler.py.
list_listing(proc, environ, objects, max_keys) ==
    LET listed == list_objects_v2(objects, max_keys, proc.s3)
        logged == [proc EXCEPT !.calls = Append(@, ListCall(environ.BUCKET_NAME, listed))]
    IN  IF listed.kind # "ok"
        THEN Returning(logged, ListError(listed))
        ELSE IF "Contents" \in DOMAIN listed.response
        THEN Returning(logged,
                 ListOk([k \in 1..Len(listed.response.Contents) |->
                            format_binary_info(listed.response.Contents[k])]))
        ELSE Returning(logged, ListOk(<<>>))

E_windows_amd64 ==
    [queryStringParameters |-> [kind |-> "dict", platform |-> S_windows, arch |-> S_amd64],
     headers |-> [kind |-> "dict", user_agent |-> Missing],
     requestContext |-> [kind |-> "dict", domainName |-> X_example_com, stage |-> X_prod]]

E_bare ==
    [queryStringParameters |-> [kind |-> "absent", platform |-> Missing, arch |-> Missing],
     headers |-> [kind |-> "absent", user_agent |-> Missing],
     requestContext |-> [kind |-> "absent", domainName |-> Missing, stage |-> Missing]]

E_nulls ==
    [queryStringParameters |-> [kind |-> "null", platform |-> Missing, arch |-> Missing],
     headers |-> [kind |-> "null", user_agent |-> Missing],
     requestContext |-> [kind |-> "null", domainName |-> Missing, stage |-> Missing]]

ServiceEvents == {E_windows_amd64, E_bare, E_nulls}

ServiceEnvironments ==
    {StackEnv,
     [BUCKET_NAME |-> Missing, PRESIGNED_URL_EXPIRY |-> S_3600],
     [BUCKET_NAME |-> S_BucketName, PRESIGNED_URL_EXPIRY |-> X_abc]}

\* The bucket of the service: more objects than a page of a listing holds, and
\* no binary for Windows.
ServiceListings ==
    {<<[Key |-> K_darwin_arm64, Size |-> 2048, LastModified |-> D_2024],
       [Key |-> K_freebsd_amd64, Size |-> 0, LastModified |-> NoDatetime],
       [Key |-> K_linux_amd64, Size |-> 2048, LastModified |-> D_2025]>>}

\* Conditions of the S3 backend during one invocation.
ServiceS3Conditions ==
    {[head_fault |-> Ok, not_found_code |-> S_404, presign_fault |-> Ok,
      list_fault |-> ListOkCondition],
     [head_fault |-> ClientError(X_403), not_found_code |-> S_NoSuchKey,
      presign_fault |-> Ok,
      list_fault |-> Exception("ClientError", X_AccessDenied, X_AccessDeniedMessage)],
     [head_fault |-> Ok, not_found_code |-> S_NoSuchKey,
      presign_fault |-> OtherException,
      list_fault |-> Exception("Exception", S_empty, X_ConnectMessage)]}

InitService ==
    /\ env \in ServiceEnvironments
    /\ metadata \in ServiceListings
    /\ bucket = KeysOf(metadata)
    /\ procs = [i \in Slots |-> IdleSlot]
    /\ event = E_bare
    /\ op = "service"
    /\ detected = NoDetection
    /\ resolved = NotCalled
    /\ binary_key = Missing
    /\ response = NoResponse
    /\ calls = <<>>
    /\ stack = NotStarted
    /\ deploy = NotStarted
    /\ refresher = NotStarted
    /\ iam = NotStarted
    /\ setup = NotStarted
    /\ shell = NotStarted

serviceFrame == <<env, event, op, detected, resolved, binary_key, response, calls,
                  stack, deploy, refresher, iam, setup, shell>>

\* The state after the step of an invocation: its slot, and the bucket after
\* the S3 calls the step added to the log of the slot.
Step(i, after) ==
    LET issued == SubSeq(after.calls, Len(procs[i].calls) + 1, Len(after.calls))
        objects == IF issued = <<>> THEN metadata ELSE S3Effect(metadata, issued[1])
    IN  /\ procs' = [procs EXCEPT ![i] = after]
        /\ metadata' = objects
        /\ bucket' = KeysOf(objects)
        /\ UNCHANGED serviceFrame

\* The requests of a function, with the condition of the backend during the
\* invocation: the list function ignores its event, the install function
\* makes no call to S3.
Requests(handler) ==
    [event : IF handler = "list" THEN {E_bare} ELSE ServiceEvents,
     s3 : IF handler = "install" THEN {CHOOSE c \in ServiceS3Conditions : c.head_fault = Ok /\ c.presign_fault = Ok}
          ELSE ServiceS3Conditions]

\* API Gateway hands a request to one of the three functions.
Receive(i) ==
    /\ procs[i].pc = "idle"
    /\ \E handler \in {"download", "list", "install"} :
          \E request \in Requests(handler) :
              Step(i, [IdleSlot EXCEPT !.pc = "start", !.handler = handler,
                                       !.event = request.event, !.s3 = request.s3])

DownloadEntry(i) ==
    /\ procs[i].pc = "start" /\ procs[i].handler = "download"
    /\ Step(i, download_entry(procs[i], env))

DownloadHead(i) ==
    /\ procs[i].pc = "head"
    /\ Step(i, download_head(procs[i], env, metadata))

DownloadPresign(i) ==
    /\ procs[i].pc = "presign"
    /\ Step(i, download_presign(procs, i, env))

ListEntry(i) ==
    /\ procs[i].pc = "start" /\ procs[i].handler = "list"
    /\ Step(i, list_entry(procs[i], env))

ListListing(i) ==
    /\ procs[i].pc = "listing"
    /\ Step(i, list_listing(procs[i], env, metadata, MaxKeysPerPage))

InstallRender(i) ==
    /\ procs[i].pc = "start" /\ procs[i].handler = "install"
    /\ Step(i, Returning(procs[i], install_lambda_handler(procs[i].event).response))

\* The response leaves the function; the slot is free for the next request.
Return(i) ==
    /\ procs[i].pc = "done"
    /\ Step(i, IdleSlot)

NextService ==
    \E i \in Slots :
        \/ Receive(i)
        \/ DownloadEntry(i)
        \/ DownloadHead(i)
        \/ DownloadPresign(i)
        \/ ListEntry(i)
        \/ ListListing(i)
        \/ InstallRender(i)
        \/ Return(i)

SpecService == InitService /\ [][NextService]_vars

-----------------------------------------------------------------------------
(* config.py and stacks/binary_distribution_stack.py *)

\* CONFIG.lambda_config.function_names
function_names ==
    [download |-> "appinit-download-handler",
     list |-> "appinit-list-handler"]

\* CONFIG.lambda_config.handlers
handlers ==
    [download |-> "download_handler.lambda_handler",
     list |-> "list_handler.lambda_handler"]

\* The statements of BinaryDistributionStack.__init__ after super().__init__,
\* in their order, and app.synth() of app.py after them.
StackStatements ==
    <<[op |-> "tags"],
      [op |-> "bucket", id |-> "AppInitBinariesBucket"],
      [op |-> "function", id |-> "AppInitDownloadHandler", key |-> "download",
       environment |-> {"BUCKET_NAME", "PRESIGNED_URL_EXPIRY"}],
      [op |-> "grant_read", identity |-> "AppInitDownloadHandler"],
      [op |-> "function", id |-> "AppInitListHandler", key |-> "list",
       environment |-> {"BUCKET_NAME"}],
      [op |-> "grant_read", identity |-> "AppInitListHandler"],
      [op |-> "function", id |-> "AppInitInstallHandler", key |-> "install",
       environment |-> {}],
      [op |-> "api", id |-> "AppInitBinariesApi"],
      [op |-> "method", path_part |-> "download", http_method |-> "GET",
       handler |-> "AppInitDownloadHandler"],
      [op |-> "method", path_part |-> "list", http_method |-> "GET",
       handler |-> "AppInitListHandler"],
      [op |-> "method", path_part |-> "install", http_method |-> "GET",
       handler |-> "AppInitInstallHandler"],
      [op |-> "group", id |-> "AppInitResourceGroup"],
      [op |-> "synth"]>>

\* The stack when BinaryDistributionStack(...) is entered.
EmptyStack ==
    [pc |-> "running", next |-> 1, exc |-> "none", lookups |-> {},
     resources |-> {}, functions |-> {}, grants |-> {}, routes |-> {}]

\* One statement of __init__ on the stack under construction.
execute(stmt, st) ==
    CASE stmt.op = "function" ->
            IF stmt.key \in DOMAIN function_names /\ stmt.key \in DOMAIN handlers
            THEN [st EXCEPT !.lookups = @ \cup {stmt.key},
                            !.resources = @ \cup {stmt.id},
                            !.functions = @ \cup
                                {[id |-> stmt.id,
                                  function_name |-> function_names[stmt.key],
                                  handler |-> handlers[stmt.key],
                                  environment |-> stmt.environment]}]
            ELSE [st EXCEPT !.lookups = @ \cup {stmt.key},
                            !.pc = "raised", !.exc = "KeyError"]
      [] stmt.op = "grant_read" ->
            [st EXCEPT !.grants = @ \cup {stmt.identity}]
      [] stmt.op = "method" ->
            [st EXCEPT !.routes = @ \cup
                {[path |-> stmt.path_part, http_method |-> stmt.http_method,
                  handler |-> stmt.handler]}]
      [] stmt.op \in {"bucket", "api", "group"} ->
            [st EXCEPT !.resources = @ \cup {stmt.id}]
      [] stmt.op = "tags" -> st
      [] stmt.op = "synth" -> [st EXCEPT !.pc = "done"]

\* The next statement of app.py: an exception ends the program.
StackStep ==
    /\ stack.pc = "running"
    /\ LET after == execute(StackStatements[stack.next], stack)
       IN  stack' = IF after.pc = "running"
                    THEN [after EXCEPT !.next = @ + 1]
                    ELSE after
    /\ UNCHANGED <<env, bucket, event, op, detected, resolved, binary_key,
                   response, calls, metadata, procs, deploy, refresher, iam, setup, shell>>

-----------------------------------------------------------------------------
(* scripts/build_and_deploy.py *)

TARGETS ==
    <<<<S_linux, S_amd64>>,
      <<S_linux, S_arm64>>,
      <<S_darwin, S_amd64>>,
      <<S_darwin, S_arm64>>,
      <<S_windows, S_amd64>>>>

S_bucket == <<"b","u","c","k","e","t">>

\* The name of output_path in build_binary: f"appinit-{goos}-{goarch}", and
\* f"appinit-{goos}-{goarch}.exe" when goos == "windows"
output_path_name_exe_for_every_target(goos, goarch) ==
    <<"a","p","p","i","n","i","t","-">> \o goos \o <<"-">> \o goarch \o <<".","e","x","e">>

output_path_name(goos, goarch) ==
    IF goos = S_windows
    THEN <<"a","p","p","i","n","i","t","-">> \o goos \o <<"-">> \o goarch \o <<".","e","x","e">>
    ELSE <<"a","p","p","i","n","i","t","-">> \o goos \o <<"-">> \o goarch

\* Lines 151-161 of main: the value of the first output whose key holds
\* "bucket", else the known bucket name.
RECURSIVE bucket_name_of(_, _)
bucket_name_of(outputs, i) ==
    IF i > Len(outputs) THEN <<"a","p","p","i","n","i","t","-","b","i","n","a","r","i","e","s">>
    ELSE IF contains(lower(outputs[i].OutputKey), S_bucket)
              /\ outputs[i].OutputValue # S_empty
         THEN outputs[i].OutputValue
         ELSE bucket_name_of(outputs, i + 1)

\* What get_stack_outputs gives: no outputs (the stack is not deployed and
\* describe_stacks raises ClientError, or the stack has none), or the
\* endpoint output of the REST API.
StackOutputs ==
    {<<>>,
     <<[OutputKey |-> <<"A","p","p","I","n","i","t","B","i","n","a","r","i","e","s","A","p","i","E","n","d","p","o","i","n","t","0","F","2","D","8","E","6","A">>,
        OutputValue |-> <<"h","t","t","p","s",":","/","/","a","b","c","1","2","3",".","e","x","e","c","u","t","e","-","a","p","i",".","u","s","-","e","a","s","t","-","1",".","a","m","a","z","o","n","a","w","s",".","c","o","m","/","p","r","o","d","/">>]>>}

\* Outcomes of s3.upload_file: done, a ClientError (caught: False), or the
\* S3UploadFailedError of boto3, which upload_to_s3 does not catch.
UploadOutcomes == {"ok", "ClientError", "S3UploadFailedError"}

ToolStarted ==
    [pc |-> "outputs", bucket_name |-> Missing, target |-> 1,
     built_files |-> <<>>, uploads |-> <<>>]

deployFrame == <<env, event, op, detected, resolved, binary_key, response, calls,
                 metadata, procs, stack, refresher, iam, setup, shell>>

\* Lines 146-167 of main.
GetStackOutputs ==
    /\ deploy.pc = "outputs"
    /\ \E outputs \in StackOutputs :
          deploy' = [deploy EXCEPT !.pc = "build",
                                   !.bucket_name = bucket_name_of(outputs, 1)]
    /\ UNCHANGED bucket
    /\ UNCHANGED deployFrame

\* One pass of the loop of lines 171-174: build_binary gives the output path,
\* or None when go build fails.
BuildBinary ==
    /\ deploy.pc = "build"
    /\ deploy.target <= Len(TARGETS)
    /\ LET goos == TARGETS[deploy.target][1]
           goarch == TARGETS[deploy.target][2]
       IN  \E returncode \in {0, 1} :
              deploy' = [deploy EXCEPT
                            !.target = @ + 1,
                            !.built_files =
                                IF returncode = 0
                                THEN Append(@, [name |-> output_path_name(goos, goarch),
                                                goos |-> goos, goarch |-> goarch])
                                ELSE @]
    /\ UNCHANGED bucket
    /\ UNCHANGED deployFrame

\* Lines 176-178: exit 1 when nothing was built.
CheckBuiltFiles ==
    /\ deploy.pc = "build"
    /\ deploy.target > Len(TARGETS)
    /\ deploy' = [deploy EXCEPT !.pc = IF deploy.built_files = <<>> THEN "exit1"
                                       ELSE "upload"]
    /\ UNCHANGED bucket
    /\ UNCHANGED deployFrame

\* One pass of the loop of lines 182-187: key = binary_path.name, and
\* upload_to_s3 of the file under that key.
UploadToS3 ==
    /\ deploy.pc = "upload"
    /\ Len(deploy.uploads) < Len(deploy.built_files)
    /\ LET built == deploy.built_files[Len(deploy.uploads) + 1]
           key == built.name
       IN  \E outcome \in UploadOutcomes :
              /\ deploy' = [deploy EXCEPT
                               !.uploads = Append(@, [key |-> key, goos |-> built.goos,
                                                      goarch |-> built.goarch,
                                                      bucket_name |-> deploy.bucket_name,
                                                      outcome |-> outcome]),
                               !.pc = IF outcome = "S3UploadFailedError"
                                      THEN "raised" ELSE "upload"]
              /\ bucket' = IF outcome = "ok" /\ deploy.bucket_name = S_BucketName
                           THEN bucket \cup {key}
                           ELSE bucket
    /\ UNCHANGED deployFrame

\* Lines 189-191: the end of main.
DeploymentComplete ==
    /\ deploy.pc = "upload"
    /\ Len(deploy.uploads) = Len(deploy.built_files)
    /\ deploy' = [deploy EXCEPT !.pc = "done"]
    /\ UNCHANGED bucket
    /\ UNCHANGED deployFrame

\* A request to /download for a build target, with both parameters.
TargetRequest(goos, goarch) ==
    [queryStringParameters |-> [kind |-> "dict", platform |-> goos, arch |-> goarch],
     headers |-> [kind |-> "absent", user_agent |-> Missing]]

DeployS3Conditions ==
    {c \in S3Conditions : c.not_found_code = S_404 /\ c.presign_fault = Ok}

\* The download Lambda serves a request for a target after the tool has ended.
DownloadTarget ==
    /\ op = "deploy"
    /\ deploy.pc \in {"done", "exit1", "raised"}
    /\ \E t \in 1..Len(TARGETS), s3 \in DeployS3Conditions :
          LET ev == TargetRequest(TARGETS[t][1], TARGETS[t][2])
              out == lambda_handler(ev, env, bucket, s3)
          IN  /\ event' = ev
              /\ response' = out.response
              /\ resolved' = out.resolved
              /\ binary_key' = out.binary_key
              /\ calls' = out.calls
    /\ op' = "download"
    /\ UNCHANGED <<env, bucket, detected>>
    /\ UNCHANGED restVars

InitDeploy ==
    /\ env = StackEnv
    /\ bucket = {}
    /\ event = TargetRequest(S_linux, S_amd64)
    /\ op = "deploy"
    /\ detected = NoDetection
    /\ resolved = NotCalled
    /\ binary_key = Missing
    /\ response = NoResponse
    /\ calls = <<>>
    /\ metadata = <<>>
    /\ procs = <<>>
    /\ stack = EmptyStack
    /\ deploy = ToolStarted
    /\ refresher = NotStarted
    /\ iam = NotStarted
    /\ setup = NotStarted
    /\ shell = NotStarted

NextDeploy ==
    \/ StackStep
    \/ GetStackOutputs
    \/ BuildBinary
    \/ CheckBuiltFiles
    \/ UploadToS3
    \/ DeploymentComplete
    \/ DownloadTarget

SpecDeploy == InitDeploy /\ [][NextDeploy]_vars

-----------------------------------------------------------------------------
(* scripts/upgrade_dependencies.py *)

\* Dependencies of one list of pyproject.toml.
MaxDeps == 2

T_ge == <<">","=">>
T_le == <<"<","=">>
T_eq == <<"=","=">>
T_ne == <<"!","=">>
T_gt == <<">">>
T_lt == <<"<">>
T_compatible == <<"~","=">>
T_caret == <<"^">>
T_bracket == <<"[">>
T_at == <<"@">>

\* s.find(sub) + 1: the first place `sub` occurs at, 0 when it does not
find(s, sub) ==
    IF contains(s, sub)
    THEN CHOOSE i \in 1..(Len(s) - Len(sub) + 1) :
            /\ SubSeq(s, i, i + Len(sub) - 1) = sub
            /\ \A j \in 1..(i - 1) : SubSeq(s, j, j + Len(sub) - 1) # sub
    ELSE 0

\* s.split(sep)[0], for a `sep` that occurs in s
before(s, sep) == SubSeq(s, 1, find(s, sep) - 1)

\* s.split(sep, 1)[1], for a `sep` that occurs in s
after(s, sep) == SubSeq(s, find(s, sep) + Len(sep), Len(s))

\* s.strip()
RECURSIVE strip(_)
strip(s) ==
    IF s = <<>> THEN s
    ELSE IF s[1] = " " THEN strip(Tail(s))
    ELSE IF s[Len(s)] = " " THEN strip(SubSeq(s, 1, Len(s) - 1))
    ELSE s

\* The first of `seps` that occurs in s, 0 when none does.
first_sep(seps, s) ==
    IF \E k \in 1..Len(seps) : contains(s, seps[k])
    THEN CHOOSE k \in 1..Len(seps) :
            /\ contains(s, seps[k])
            /\ \A j \in 1..(k - 1) : ~contains(s, seps[j])
    ELSE 0

VersionSeparators == <<T_ge, T_le, T_eq, T_ne, T_gt, T_lt, T_compatible>>

NameSeparators == VersionSeparators \o <<T_bracket, T_at>>

\* extract_version_from_dep(dep_string); `Missing` is None
extract_version_from_dep(dep_string) ==
    LET k == first_sep(VersionSeparators, dep_string)
    IN  IF k = 0 THEN Missing
        ELSE strip(after(dep_string, VersionSeparators[k]))

should_update_dependency_always(dep_string) == TRUE

\* should_update_dependency(dep_string)
should_update_dependency(dep_string) ==
    IF contains(dep_string, T_eq) THEN FALSE
    ELSE IF contains(dep_string, T_caret) THEN FALSE
    ELSE IF contains(dep_string, T_compatible) THEN FALSE
    ELSE IF contains(dep_string, T_lt) /\ ~contains(dep_string, T_ge) THEN FALSE
    ELSE TRUE

\* extract_package_name(dep_string)
extract_package_name(dep_string) ==
    LET k == first_sep(NameSeparators, dep_string)
    IN  IF k = 0 THEN strip(dep_string)
        ELSE strip(before(dep_string, NameSeparators[k]))

\* [dep for dep in deps if keep(dep)]
RECURSIVE filter_deps(_, _)
filter_deps(deps, updatable) ==
    IF deps = <<>> THEN <<>>
    ELSE IF should_update_dependency(deps[1]) = updatable
         THEN <<deps[1]>> \o filter_deps(Tail(deps), updatable)
         ELSE filter_deps(Tail(deps), updatable)

\* The command line of `uv remove` / `uv add` for a package, with what it
\* returned.
UvCommand(verb, is_dev, pkg_name, success) ==
    [cmd |-> IF is_dev THEN <<"uv", verb, "--dev">> ELSE <<"uv", verb>>,
     pkg |-> pkg_name, success |-> success]

\* pyproject.toml after a successful `uv remove pkg`.
RECURSIVE uv_remove(_, _)
uv_remove(project, pkg_name) ==
    IF project = <<>> THEN <<>>
    ELSE IF extract_package_name(project[1]) = pkg_name
         THEN uv_remove(Tail(project), pkg_name)
         ELSE <<project[1]>> \o uv_remove(Tail(project), pkg_name)

\* pyproject.toml after a successful `uv add pkg`: the package with the lower
\* bound of the version uv resolved.
uv_add(project, pkg_name, version) ==
    Append(project, pkg_name \o T_ge \o version)

D_flask == <<"f","l","a","s","k">>
D_boto3 == <<"b","o","t","o","3"," ",">","="," ","1",".","3","4">>
D_requests == <<"r","e","q","u","e","s","t","s","=","=","2",".","3","1",".","0">>
D_django == <<"d","j","a","n","g","o","~","=","4",".","2">>
D_numpy == <<"n","u","m","p","y","<","2",".","0">>
D_urllib3 == <<"u","r","l","l","i","b","3",">","=","1",".","2","6",",","<","3">>
D_poetry == <<"p","o","e","t","r","y","-","c","o","r","e","^","1",".","9">>
V_latest == <<"9",".","9">>
V_1_34 == <<"1",".","3","4">>

\* Dependency strings of pyproject.toml: bare, open, pinned, compatible
\* release, upper bound, range, caret.
DepStrings == {D_flask, D_boto3, D_requests, D_django, D_numpy, D_urllib3, D_poetry}

\* Dependency lists: no package twice.
DepLists ==
    {deps \in UNION {[1..n -> DepStrings] : n \in 0..MaxDeps} :
        \A i, j \in 1..Len(deps) : i # j => deps[i] # deps[j]}

\* What `uv pip show` reports after the add: the latest version, the version
\* of the constraint, or nothing.
InstalledVersions == {V_latest, V_1_34, Missing}

\* DependencyRefresher() entering refresh_dependencies(deps, is_dev).
Refresher(deps, is_dev) ==
    [pc |-> "filter", deps |-> deps, is_dev |-> is_dev,
     updatable_deps |-> <<>>, skipped_deps |-> <<>>, dep |-> 1,
     version_changes |-> <<>>, failed |-> <<>>,
     commands |-> <<>>, pyproject |-> deps]

dep_type_of(is_dev) == IF is_dev THEN "dev" ELSE "regular"

upgradeFrame == <<env, bucket, event, op, detected, resolved, binary_key, response,
                  calls, metadata, procs, stack, deploy, iam, setup, shell>>

\* Lines 227-240: nothing to do for an empty list; else the two lists.
FilterDependencies ==
    /\ refresher.pc = "filter"
    /\ refresher' =
          IF refresher.deps = <<>>
          THEN [refresher EXCEPT !.pc = "returned"]
          ELSE [refresher EXCEPT !.pc = "remove",
                                 !.updatable_deps = filter_deps(refresher.deps, TRUE),
                                 !.skipped_deps = filter_deps(refresher.deps, FALSE)]
    /\ UNCHANGED upgradeFrame

\* Lines 243-256: uv remove of the next updatable dependency.
UvRemove ==
    /\ refresher.pc = "remove"
    /\ refresher.dep <= Len(refresher.updatable_deps)
    /\ LET pkg_name == extract_package_name(refresher.updatable_deps[refresher.dep])
       IN  \E success \in BOOLEAN :
              refresher' =
                  IF success
                  THEN [refresher EXCEPT
                           !.commands = Append(@, UvCommand("remove", refresher.is_dev,
                                                            pkg_name, TRUE)),
                           !.pyproject = uv_remove(@, pkg_name),
                           !.pc = "add"]
                  ELSE [refresher EXCEPT
                           !.commands = Append(@, UvCommand("remove", refresher.is_dev,
                                                            pkg_name, FALSE)),
                           !.failed = Append(@, <<pkg_name, dep_type_of(refresher.is_dev),
                                                  "remove">>),
                           !.dep = @ + 1]
    /\ UNCHANGED upgradeFrame

\* Lines 258-277: uv add of the package just removed.
UvAdd ==
    /\ refresher.pc = "add"
    /\ LET dep == refresher.updatable_deps[refresher.dep]
           pkg_name == extract_package_name(dep)
           old_version == extract_version_from_dep(dep)
       IN  \/ refresher' =
                 [refresher EXCEPT
                     !.commands = Append(@, UvCommand("add", refresher.is_dev,
                                                      pkg_name, FALSE)),
                     !.failed = Append(@, <<pkg_name, dep_type_of(refresher.is_dev), "add">>),
                     !.dep = @ + 1,
                     !.pc = "remove"]
           \/ \E new_version \in InstalledVersions :
                 refresher' =
                     [refresher EXCEPT
                         !.commands = Append(@, UvCommand("add", refresher.is_dev,
                                                          pkg_name, TRUE)),
                         !.pyproject = uv_add(@, pkg_name,
                                              IF new_version = Missing THEN V_latest
                                              ELSE new_version),
                         !.version_changes = Append(@, <<pkg_name,
                                                         dep_type_of(refresher.is_dev),
                                                         old_version, new_version>>),
                         !.dep = @ + 1,
                         !.pc = "remove"]
    /\ UNCHANGED upgradeFrame

\* The end of the loop of line 242.
RefreshReturns ==
    /\ refresher.pc = "remove"
    /\ refresher.dep > Len(refresher.updatable_deps)
    /\ refresher' = [refresher EXCEPT !.pc = "returned"]
    /\ UNCHANGED upgradeFrame

InitUpgrade ==
    /\ env = StackEnv
    /\ bucket = {}
    /\ event = TargetRequest(S_linux, S_amd64)
    /\ op = "upgrade"
    /\ detected = NoDetection
    /\ resolved = NotCalled
    /\ binary_key = Missing
    /\ response = NoResponse
    /\ calls = <<>>
    /\ metadata = <<>>
    /\ procs = <<>>
    /\ stack = NotStarted
    /\ deploy = NotStarted
    /\ iam = NotStarted
    /\ setup = NotStarted
    /\ shell = NotStarted
    /\ \E deps \in DepLists, is_dev \in BOOLEAN : refresher = Refresher(deps, is_dev)

NextUpgrade ==
    \/ FilterDependencies
    \/ UvRemove
    \/ UvAdd
    \/ RefreshReturns

SpecUpgrade == InitUpgrade /\ [][NextUpgrade]_vars

-----------------------------------------------------------------------------
(* upgrade_dependencies.py: DependencyRefresher.run. *)

\* pyproject.toml of the working directory: project.dependencies and
\* dependency-groups.dev.
Projects ==
    {[regular_deps |-> <<>>, dev_deps |-> <<>>],
     [regular_deps |-> <<D_flask>>, dev_deps |-> <<>>],
     [regular_deps |-> <<>>, dev_deps |-> <<D_boto3>>],
     [regular_deps |-> <<D_flask, D_requests>>, dev_deps |-> <<D_urllib3>>]}

\* What update_python_version finds (lines 141-205).
PythonOutcomes ==
    {"no requires-python", "unparsable", "no latest version", "up to date",
     "declined", "install failed", "installed"}

\* The commands update_python_version runs for each outcome.
python_commands(outcome) ==
    IF outcome \in {"no requires-python", "unparsable"} THEN <<>>
    ELSE IF outcome \in {"install failed", "installed"}
         THEN <<"uv python list", "uv python install">>
         ELSE <<"uv python list">>

\* DependencyRefresher(relock, rebuild_venv, skip_confirm=False) of main
\* (line 416) at the start of run, in a directory with `project`.
RunningRefresher(project, relock, rebuild_venv) ==
    [pc |-> "prerequisites", status |-> "running",
     relock |-> relock, rebuild_venv |-> rebuild_venv,
     project |-> project, requires_python |-> "current",
     trace |-> <<>>,
     deps |-> <<>>, is_dev |-> FALSE,
     updatable_deps |-> <<>>, skipped_deps |-> <<>>, dep |-> 1,
     version_changes |-> <<>>, failed |-> <<>>,
     commands |-> <<>>, pyproject |-> project.regular_deps \o project.dev_deps]

Exit(r, code) == [r EXCEPT !.pc = "exited", !.status = code]

\* Lines 314-332: uv --version, pyproject.toml, git status and the question
\* asked outside a git repository.
CheckPrerequisites ==
    /\ op = "run"
    /\ refresher.pc = "prerequisites"
    /\ \E uv_found \in BOOLEAN, in_git \in BOOLEAN, answer \in {"y", "n"} :
          refresher' =
              IF ~uv_found
              THEN Exit([refresher EXCEPT !.trace = Append(@, "uv --version")], "exit 1")
              ELSE IF ~in_git /\ answer # "y"
              THEN Exit([refresher EXCEPT
                            !.trace = @ \o <<"uv --version", "git status">>], "exit 0")
              ELSE [refresher EXCEPT
                       !.trace = @ \o <<"uv --version", "git status">>,
                       !.pc = "rebuild_venv"]
    /\ UNCHANGED upgradeFrame

\* Lines 341-343.
RebuildVenv ==
    /\ op = "run"
    /\ refresher.pc = "rebuild_venv"
    /\ refresher' =
          IF refresher.rebuild_venv
          THEN [refresher EXCEPT !.trace = Append(@, "uv venv --force"),
                                 !.pc = "self_update"]
          ELSE [refresher EXCEPT !.pc = "self_update"]
    /\ UNCHANGED upgradeFrame

\* Lines 345-348: a failed update is a warning only.
UvSelfUpdate ==
    /\ op = "run"
    /\ refresher.pc = "self_update"
    /\ refresher' = [refresher EXCEPT !.trace = Append(@, "uv self update"),
                                      !.pc = "update_python_version"]
    /\ UNCHANGED upgradeFrame

\* Line 350.
UpdatePythonVersion ==
    /\ op = "run"
    /\ refresher.pc = "update_python_version"
    /\ \E outcome \in PythonOutcomes :
          refresher' =
              [refresher EXCEPT
                  !.trace = @ \o python_commands(outcome),
                  !.requires_python = IF outcome = "installed" THEN "latest" ELSE @,
                  !.pc = "parse_pyproject"]
    /\ UNCHANGED upgradeFrame

\* Lines 352-379: the two lists are read and shown, and the user is asked.
ParsePyproject ==
    /\ op = "run"
    /\ refresher.pc = "parse_pyproject"
    /\ \E answer \in {"y", "n"} :
          refresher' =
              IF answer # "y"
              THEN Exit([refresher EXCEPT !.trace = Append(@, "parse_pyproject")],
                        "exit 0")
              ELSE [refresher EXCEPT !.trace = Append(@, "parse_pyproject"),
                                     !.pc = "regular_deps"]
    /\ UNCHANGED upgradeFrame

\* self.refresh_dependencies(deps, is_dev) entered from run.
enter_refresh_dependencies(r, deps, is_dev) ==
    [r EXCEPT !.trace = Append(@, "refresh_dependencies"),
              !.pc = "filter", !.deps = deps, !.is_dev = is_dev,
              !.updatable_deps = <<>>, !.skipped_deps = <<>>, !.dep = 1]

\* Lines 381-382.
RefreshRegularDeps ==
    /\ op = "run"
    /\ refresher.pc = "regular_deps"
    /\ refresher' =
          IF refresher.project.regular_deps # <<>>
          THEN enter_refresh_dependencies(refresher, refresher.project.regular_deps, FALSE)
          ELSE [refresher EXCEPT !.pc = "dev_deps"]
    /\ UNCHANGED upgradeFrame

\* Lines 383-384, reached past line 382 or from the return of its call.
RefreshDevDeps ==
    /\ op = "run"
    /\ \/ refresher.pc = "dev_deps"
       \/ refresher.pc = "returned" /\ ~refresher.is_dev
    /\ refresher' =
          IF refresher.project.dev_deps # <<>>
          THEN enter_refresh_dependencies(refresher, refresher.project.dev_deps, TRUE)
          ELSE [refresher EXCEPT !.pc = "relock"]
    /\ UNCHANGED upgradeFrame

\* Lines 386-388, reached past line 384 or from the return of its call.
Relock ==
    /\ op = "run"
    /\ \/ refresher.pc = "relock"
       \/ refresher.pc = "returned" /\ refresher.is_dev
    /\ refresher' =
          IF refresher.relock
          THEN [refresher EXCEPT !.trace = Append(@, "uv lock --upgrade"), !.pc = "sync"]
          ELSE [refresher EXCEPT !.pc = "sync"]
    /\ UNCHANGED upgradeFrame

\* Lines 390-391.
UvSync ==
    /\ op = "run"
    /\ refresher.pc = "sync"
    /\ refresher' = [refresher EXCEPT !.trace = Append(@, "uv sync"),
                                      !.pc = "print_report"]
    /\ UNCHANGED upgradeFrame

\* Lines 393-397 with print_report (279-312): False when anything failed.
PrintReport ==
    /\ op = "run"
    /\ refresher.pc = "print_report"
    /\ refresher' =
          IF refresher.failed # <<>>
          THEN Exit([refresher EXCEPT !.trace = Append(@, "print_report")], "exit 1")
          ELSE [refresher EXCEPT !.trace = Append(@, "print_report"),
                                 !.pc = "exited", !.status = "returned"]
    /\ UNCHANGED upgradeFrame

InitRun ==
    /\ env = StackEnv
    /\ bucket = {}
    /\ event = TargetRequest(S_linux, S_amd64)
    /\ op = "run"
    /\ detected = NoDetection
    /\ resolved = NotCalled
    /\ binary_key = Missing
    /\ response = NoResponse
    /\ calls = <<>>
    /\ metadata = <<>>
    /\ procs = <<>>
    /\ stack = NotStarted
    /\ deploy = NotStarted
    /\ iam = NotStarted
    /\ setup = NotStarted
    /\ shell = NotStarted
    /\ \E project \in Projects, relock \in BOOLEAN, rebuild_venv \in BOOLEAN :
          refresher = RunningRefresher(project, relock, rebuild_venv)

NextRun ==
    \/ CheckPrerequisites
    \/ RebuildVenv
    \/ UvSelfUpdate
    \/ UpdatePythonVersion
    \/ ParsePyproject
    \/ RefreshRegularDeps
    \/ RefreshDevDeps
    \/ Relock
    \/ UvSync
    \/ PrintReport
    \/ FilterDependencies
    \/ UvRemove
    \/ UvAdd
    \/ RefreshReturns

SpecRun == InitRun /\ [][NextRun]_vars

-----------------------------------------------------------------------------
(* scripts/setup_github_oidc.py *)

\* The script is run at most MaxRuns times on the account.
MaxRuns == 3

role_name == "GitHubActions-AppInitBinaryDeploy"

PolicyName == "BinaryDeploymentPolicy"

\* An account without the role; the GitHub OIDC provider may be there.
Account(provider) == [provider |-> provider, roles |-> {}, role_policies |-> {}]

AwsCall(api, outcome) == [api |-> api, outcome |-> outcome]

\* The process at the start of main, sys.argv having argc entries.
SetupStarted(argc, runs) ==
    [pc |-> "main", argc |-> argc, runs |-> runs, calls |-> <<>>,
     status |-> "running", role_arn_printed |-> FALSE]

SetupExit(s, status) == [s EXCEPT !.pc = "exited", !.status = status]

\* An exception no except clause catches: the interpreter prints the
\* traceback and ends with status 1.
SetupUncaught(s) == SetupExit(s, "traceback")

usage_error_when_more_arguments(argc) == argc > 2

\* Line 180.
usage_error(argc) == argc # 2

oidcFrame == <<env, bucket, event, op, detected, resolved, binary_key, response, calls,
               metadata, procs, stack, deploy, refresher, shell>>

\* Lines 179-184.
Main ==
    /\ setup.pc = "main"
    /\ setup' = IF usage_error(setup.argc)
                THEN SetupExit(setup, "exit 1")
                ELSE [setup EXCEPT !.pc = "get_caller_identity"]
    /\ UNCHANGED <<iam, oidcFrame>>

\* Lines 187-188.
GetCallerIdentity ==
    /\ setup.pc = "get_caller_identity"
    /\ \E outcome \in {"ok", "failed"} :
          LET called == [setup EXCEPT
                            !.calls = Append(@, AwsCall("get_caller_identity", outcome))]
          IN  setup' = IF outcome = "ok"
                       THEN [called EXCEPT !.pc = "get_open_id_connect_provider"]
                       ELSE SetupUncaught(called)
    /\ UNCHANGED <<iam, oidcFrame>>

\* Lines 156-164 (main, line 194): the lookup of the provider. Only
\* NoSuchEntityException is caught.
GetOpenIdConnectProvider ==
    /\ setup.pc = "get_open_id_connect_provider"
    /\ \E outcome \in {IF iam.provider THEN "ok" ELSE "NoSuchEntity", "failed"} :
          LET called == [setup EXCEPT
                            !.calls = Append(@, AwsCall("get_open_id_connect_provider",
                                                        outcome))]
          IN  setup' = IF outcome = "ok"
                       THEN [called EXCEPT !.pc = "create_role"]
                       ELSE IF outcome = "NoSuchEntity"
                       THEN [called EXCEPT !.pc = "create_open_id_connect_provider"]
                       ELSE SetupUncaught(called)
    /\ UNCHANGED <<iam, oidcFrame>>

\* Lines 166-177 and 194-195: False, and sys.exit(1), when the creation fails.
CreateOpenIdConnectProvider ==
    /\ setup.pc = "create_open_id_connect_provider"
    /\ \E outcome \in {"ok", "failed"} :
          LET called == [setup EXCEPT
                            !.calls = Append(@, AwsCall("create_open_id_connect_provider",
                                                        outcome))]
          IN  /\ setup' = IF outcome = "ok"
                          THEN [called EXCEPT !.pc = "create_role"]
                          ELSE SetupExit(called, "exit 1")
              /\ iam' = IF outcome = "ok" THEN [iam EXCEPT !.provider = TRUE] ELSE iam
    /\ UNCHANGED oidcFrame

\* Lines 110-125, with the except clauses of lines 142 and 149 and main's
\* lines 198-200.
CreateRole ==
    /\ setup.pc = "create_role"
    /\ \E outcome \in {IF role_name \in iam.roles THEN "EntityAlreadyExists" ELSE "ok",
                       "failed"} :
          LET called == [setup EXCEPT !.calls = Append(@, AwsCall("create_role", outcome))]
          IN  /\ setup' = IF outcome = "ok"
                          THEN [called EXCEPT !.pc = "put_role_policy"]
                          ELSE IF outcome = "EntityAlreadyExists"
                          THEN [called EXCEPT !.pc = "get_role"]
                          ELSE SetupExit(called, "exit 1")
              /\ iam' = IF outcome = "ok"
                        THEN [iam EXCEPT !.roles = @ \cup {role_name}]
                        ELSE iam
    /\ UNCHANGED oidcFrame

\* Lines 127-140 and 198-210: the inline policy, the role ARN, the closing
\* messages; lines 149-151 and 199-200 when the call fails.
PutRolePolicy ==
    /\ setup.pc = "put_role_policy"
    /\ \E outcome \in {"ok", "failed"} :
          LET called == [setup EXCEPT !.calls = Append(@, AwsCall("put_role_policy", outcome))]
          IN  /\ setup' = IF outcome = "ok"
                          THEN SetupExit([called EXCEPT !.role_arn_printed = TRUE], "exit 0")
                          ELSE SetupExit(called, "exit 1")
              /\ iam' = IF outcome = "ok"
                        THEN [iam EXCEPT !.role_policies = @ \cup {<<role_name, PolicyName>>}]
                        ELSE iam
    /\ UNCHANGED oidcFrame

\* Lines 142-147 and 198-210: the role is there already; its ARN is read,
\* printed and returned. An exception of get_role is raised inside the
\* except clause and caught nowhere.
GetRole ==
    /\ setup.pc = "get_role"
    /\ \E outcome \in {"ok", "failed"} :
          LET called == [setup EXCEPT !.calls = Append(@, AwsCall("get_role", outcome))]
          IN  setup' = IF outcome = "ok"
                       THEN SetupExit([called EXCEPT !.role_arn_printed = TRUE], "exit 0")
                       ELSE SetupUncaught(called)
    /\ UNCHANGED <<iam, oidcFrame>>

\* The script is run again.
RunAgain ==
    /\ setup.pc = "exited"
    /\ setup.runs < MaxRuns
    /\ \E argc \in 1..3 : setup' = SetupStarted(argc, setup.runs + 1)
    /\ UNCHANGED <<iam, oidcFrame>>

InitOidc ==
    /\ env = StackEnv
    /\ bucket = {}
    /\ event = TargetRequest(S_linux, S_amd64)
    /\ op = "setup"
    /\ detected = NoDetection
    /\ resolved = NotCalled
    /\ binary_key = Missing
    /\ response = NoResponse
    /\ calls = <<>>
    /\ metadata = <<>>
    /\ procs = <<>>
    /\ stack = NotStarted
    /\ deploy = NotStarted
    /\ refresher = NotStarted
    /\ shell = NotStarted
    /\ \E provider \in BOOLEAN : iam = Account(provider)
    /\ \E argc \in 1..3 : setup = SetupStarted(argc, 1)

NextOidc ==
    \/ Main
    \/ GetCallerIdentity
    \/ GetOpenIdConnectProvider
    \/ CreateOpenIdConnectProvider
    \/ CreateRole
    \/ PutRolePolicy
    \/ GetRole
    \/ RunAgain

SpecOidc == InitOidc /\ [][NextOidc]_vars

-----------------------------------------------------------------------------
(* install_handler.py: an execution of the rendered script (lines 24-58)
   against the deployed download endpoint. *)

U_Linux == <<"L","i","n","u","x">>
U_Darwin == <<"D","a","r","w","i","n">>
U_FreeBSD == <<"F","r","e","e","B","S","D">>
U_MINGW == <<"M","I","N","G","W","6","4","_","N","T","-","1","0",".","0">>
M_x86_64 == <<"x","8","6","_","6","4">>
M_i686 == <<"i","6","8","6">>
M_armv7l == <<"a","r","m","v","7","l">>
X_curl == <<"c","u","r","l","/","8",".","5",".","0">>

\* What `uname -s` and `uname -m` print on the machine.
UnameS == {U_Linux, U_Darwin, U_FreeBSD, U_MINGW}
UnameM == {M_x86_64, S_aarch64, S_arm64, M_i686, M_armv7l}

\* The shell at the first command of the script. `appinit` is what the file
\* ./appinit holds, `installed` what /usr/local/bin/appinit holds.
ShellStarted(uname_s, uname_m, writable) ==
    [pc |-> "OS", status |-> "running",
     uname_s |-> uname_s, uname_m |-> uname_m, usr_local_bin_writable |-> writable,
     OS |-> <<>>, ARCH |-> <<>>,
     requests |-> <<>>, http_status |-> 0,
     appinit |-> "absent", executable |-> FALSE, installed |-> "absent"]

ShellExit(sh, status) == [sh EXCEPT !.pc = "exited", !.status = status]

case_arch_keeps_other(ARCH) ==
    IF ARCH = M_x86_64 THEN S_amd64 ELSE ARCH

\* Lines 30-34: the value of ARCH after the case statement, `Missing` for
\* the branch that exits.
case_arch(ARCH) ==
    IF ARCH = M_x86_64 THEN S_amd64
    ELSE IF ARCH \in {S_aarch64, S_arm64} THEN S_arm64
    ELSE Missing

\* Lines 36-40.
case_os(OS) ==
    IF OS = S_darwin THEN S_darwin
    ELSE IF OS = S_linux THEN S_linux
    ELSE Missing

\* Line 44: the request curl sends for DOWNLOAD_URL.
DownloadRequest(OS, ARCH) ==
    [queryStringParameters |-> [kind |-> "dict", platform |-> OS, arch |-> ARCH],
     headers |-> [kind |-> "dict", user_agent |-> X_curl]]

\* The status API Gateway answers with for what the function returned; an
\* exception of the function is a 502.
http_status_of(res) ==
    IF "statusCode" \in DOMAIN res THEN res.statusCode ELSE 502

\* Line 45, `curl -L -o appinit URL`: a redirect is followed and the object
\* saved; the body of any other answer is saved as it is (there is no
\* --fail), both with exit status 0.
curl_saves(http_status) == IF http_status = 302 THEN "binary" ELSE "error body"

shellFrame == <<env, bucket, event, op, detected, resolved, binary_key, response, calls,
                metadata, procs, stack, deploy, refresher, iam, setup>>

\* Line 27.
DetectOS ==
    /\ shell.pc = "OS"
    /\ shell' = [shell EXCEPT !.OS = lower(shell.uname_s), !.pc = "ARCH"]
    /\ UNCHANGED shellFrame

\* Line 28.
DetectArch ==
    /\ shell.pc = "ARCH"
    /\ shell' = [shell EXCEPT !.ARCH = shell.uname_m, !.pc = "case ARCH"]
    /\ UNCHANGED shellFrame

\* Lines 30-34.
CaseArch ==
    /\ shell.pc = "case ARCH"
    /\ shell' = IF case_arch(shell.ARCH) = Missing
                THEN ShellExit(shell, "exit 1")
                ELSE [shell EXCEPT !.ARCH = case_arch(shell.ARCH), !.pc = "case OS"]
    /\ UNCHANGED shellFrame

\* Lines 36-40.
CaseOS ==
    /\ shell.pc = "case OS"
    /\ shell' = IF case_os(shell.OS) = Missing
                THEN ShellExit(shell, "exit 1")
                ELSE [shell EXCEPT !.OS = case_os(shell.OS), !.pc = "curl"]
    /\ UNCHANGED shellFrame

\* Lines 42-45: the download. When curl cannot connect it ends with a
\* nonzero status and `set -e` (line 25) ends the script.
Curl ==
    /\ shell.pc = "curl"
    /\ LET request == DownloadRequest(shell.OS, shell.ARCH)
           sent == [shell EXCEPT !.requests = Append(@, request)]
       IN  \/ shell' = ShellExit(sent, "exit curl")
           \/ \E s3 \in S3Conditions :
                 LET status == http_status_of(lambda_handler(request, env, bucket, s3).response)
                 IN  shell' = [sent EXCEPT !.http_status = status,
                                           !.appinit = curl_saves(status),
                                           !.pc = "chmod"]
    /\ UNCHANGED shellFrame

\* Line 47.
Chmod ==
    /\ shell.pc = "chmod"
    /\ shell' = [shell EXCEPT !.executable = TRUE, !.pc = "install"]
    /\ UNCHANGED shellFrame

\* Lines 49-57.
Install ==
    /\ shell.pc = "install"
    /\ shell' = IF shell.usr_local_bin_writable
                THEN ShellExit([shell EXCEPT !.installed = shell.appinit,
                                             !.appinit = "absent"], "exit 0")
                ELSE ShellExit(shell, "exit 0")
    /\ UNCHANGED shellFrame

InitScript ==
    /\ env = StackEnv
    /\ bucket \in Buckets
    /\ event = TargetRequest(S_linux, S_amd64)
    /\ op = "script"
    /\ detected = NoDetection
    /\ resolved = NotCalled
    /\ binary_key = Missing
    /\ response = NoResponse
    /\ calls = <<>>
    /\ metadata = <<>>
    /\ procs = <<>>
    /\ stack = NotStarted
    /\ deploy = NotStarted
    /\ refresher = NotStarted
    /\ iam = NotStarted
    /\ setup = NotStarted
    /\ \E uname_s \in UnameS, uname_m \in UnameM, writable \in BOOLEAN :
          shell = ShellStarted(uname_s, uname_m, writable)

NextScript ==
    \/ DetectOS
    \/ DetectArch
    \/ CaseArch
    \/ CaseOS
    \/ Curl
    \/ Chmod
    \/ Install

SpecScript == InitScript /\ [][NextScript]_vars

-----------------------------------------------------------------------------
(* Vocabulary of the properties. *)

Supplied(value) == value # Missing /\ value # <<>>

QueryDict(ev) == ev.queryStringParameters.kind = "dict"

PlatformSupplied(ev) == QueryDict(ev) /\ Supplied(ev.queryStringParameters.platform)

ArchSupplied(ev) == QueryDict(ev) /\ Supplied(ev.queryStringParameters.arch)

HasUserAgent(ev) == ev.headers.kind = "dict" /\ ev.headers.user_agent # Missing

\* The User-Agent string of the request, the empty string when it has none.
UserAgentOrEmpty(ev) == IF HasUserAgent(ev) THEN ev.headers.user_agent ELSE <<>>

\* Two characters that are equal up to the case of a letter.
SameLetter(c, d) ==
    \/ c = d
    \/ c \in UpperCase /\ LowerOf[c] = d
    \/ d \in UpperCase /\ LowerOf[d] = c

\* `word` occurs in `s`, the case of letters ignored.
OccursIgnoringCase(s, word) ==
    \E start \in 1..Len(s) :
        /\ start + Len(word) - 1 <= Len(s)
        /\ \A k \in 0..(Len(word) - 1) : SameLetter(s[start + k], word[k + 1])

\* The decision table of the specification.
TablePlatform(ua) ==
    IF OccursIgnoringCase(ua, <<"d","a","r","w","i","n">>)
       \/ OccursIgnoringCase(ua, <<"m","a","c">>)
    THEN <<"d","a","r","w","i","n">>
    ELSE IF OccursIgnoringCase(ua, <<"w","i","n","d","o","w","s">>)
            \/ OccursIgnoringCase(ua, <<"w","i","n">>)
    THEN <<"w","i","n","d","o","w","s">>
    ELSE <<"l","i","n","u","x">>

TableArch(ua) ==
    IF OccursIgnoringCase(ua, <<"a","r","m","6","4">>)
       \/ OccursIgnoringCase(ua, <<"a","a","r","c","h","6","4">>)
    THEN <<"a","r","m","6","4">>
    ELSE <<"a","m","d","6","4">>

ResolverApplied == resolved.status # "unset"

-----------------------------------------------------------------------------
(* Properties of the platform resolver and the key builder (Spec). *)

\* C1: whenever the query parameters platform and arch are both present and
\* non-empty, _get_platform_and_arch returns exactly those two strings,
\* whatever the headers of the event hold (User-Agent present or not).
C1_BothParamsReturnedUnchanged ==
    (ResolverApplied /\ PlatformSupplied(event) /\ ArchSupplied(event))
        => /\ resolved.status = "returned"
           /\ resolved.platform = event.queryStringParameters.platform
           /\ resolved.arch = event.queryStringParameters.arch

\* C1 witness: both parameters given, with values outside the known sets, and
\* a User-Agent that names another platform and architecture.
C1_Witness ==
    /\ op = "resolve"
    /\ event.queryStringParameters.platform = X_freebsd
    /\ event.queryStringParameters.arch = X_x86_64
    /\ event.headers.user_agent = P_Mac \o S_arm64
    /\ resolved.platform = X_freebsd
    /\ resolved.arch = X_x86_64

\* C2: for every User-Agent string the two detection functions give the
\* decision table's answer (darwin for darwin/mac, else windows for
\* windows/win, else linux; arm64 for arm64/aarch64, else amd64; letters
\* compared without case), and a field the query does not supply is resolved
\* to that answer.
C2_DetectionMatchesTable ==
    /\ op = "detect" =>
          /\ detected.platform = TablePlatform(event.headers.user_agent)
          /\ detected.arch = TableArch(event.headers.user_agent)
    /\ (ResolverApplied /\ HasUserAgent(event) /\ resolved.status = "returned") =>
          /\ ~PlatformSupplied(event) =>
                resolved.platform = TablePlatform(event.headers.user_agent)
          /\ ~ArchSupplied(event) =>
                resolved.arch = TableArch(event.headers.user_agent)

\* C2 witness: "DARWIN" matches the darwin group and, through "win", the
\* windows group as well; the darwin rule is tested first.
C2_Witness ==
    /\ op = "detect"
    /\ event.headers.user_agent = P_DARWIN \o P_AArch64
    /\ detected.platform = S_darwin
    /\ detected.arch = S_arm64

\* C3 (as claimed): when exactly one of platform / arch is present and
\* non-empty, _get_platform_and_arch returns it verbatim and infers the other
\* field from the User-Agent (the empty string when there is none).
C3_OneParamOtherInferred ==
    (ResolverApplied /\ (PlatformSupplied(event) # ArchSupplied(event)))
        => /\ resolved.status = "returned"
           /\ PlatformSupplied(event) =>
                /\ resolved.platform = event.queryStringParameters.platform
                /\ resolved.arch = TableArch(UserAgentOrEmpty(event))
           /\ ArchSupplied(event) =>
                /\ resolved.arch = event.queryStringParameters.arch
                /\ resolved.platform = TablePlatform(UserAgentOrEmpty(event))

\* C4 (as claimed): a request with no User-Agent header and no platform / arch
\* query parameters resolves to the defaults (linux, amd64).
C4_NoUserAgentGivesDefaults ==
    (/\ ResolverApplied
     /\ ~HasUserAgent(event)
     /\ QueryDict(event) => /\ event.queryStringParameters.platform = Missing
                            /\ event.queryStringParameters.arch = Missing)
        => /\ resolved.status = "returned"
           /\ resolved.platform = <<"l","i","n","u","x">>
           /\ resolved.arch = <<"a","m","d","6","4">>

\* C5 (as claimed): _get_platform_and_arch returns a pair for every event and
\* never raises.
C5_ResolverNeverRaises ==
    ResolverApplied => resolved.status = "returned"

\* C6: _construct_binary_key(platform, arch) is "appinit-", the platform, "-",
\* the architecture, and then ".exe" exactly when the platform is the string
\* "windows"; (windows, amd64) gives appinit-windows-amd64.exe and
\* (linux, arm64) gives appinit-linux-arm64.
C6_BinaryKeyFormat ==
    op = "key" =>
        LET p == resolved.platform
            a == resolved.arch
            n == Len(p)
            m == Len(a)
            exe == (p = <<"w","i","n","d","o","w","s">>)
        IN  /\ Len(binary_key) = 8 + n + 1 + m + (IF exe THEN 4 ELSE 0)
            /\ SubSeq(binary_key, 1, 8) = <<"a","p","p","i","n","i","t","-">>
            /\ SubSeq(binary_key, 9, 8 + n) = p
            /\ binary_key[9 + n] = "-"
            /\ SubSeq(binary_key, 10 + n, 9 + n + m) = a
            /\ exe => SubSeq(binary_key, 10 + n + m, 13 + n + m) = <<".","e","x","e">>
            /\ (exe /\ a = <<"a","m","d","6","4">>) =>
                  binary_key = <<"a","p","p","i","n","i","t","-","w","i","n","d","o","w","s",
                                 "-","a","m","d","6","4",".","e","x","e">>
            /\ (p = <<"l","i","n","u","x">> /\ a = <<"a","r","m","6","4">>) =>
                  binary_key = <<"a","p","p","i","n","i","t","-","l","i","n","u","x",
                                 "-","a","r","m","6","4">>

\* C6 witness: the key of (windows, amd64) has been built.
C6_Witness ==
    /\ op = "key"
    /\ resolved.platform = S_windows
    /\ resolved.arch = S_amd64
    /\ binary_key = S_appinit \o S_windows \o S_dash \o S_amd64 \o S_exe

-----------------------------------------------------------------------------
(* Properties of the download handler (SpecDownload). *)

\* `word` occurs in `s`.
Occurs(s, word) ==
    \E start \in 1..Len(s) :
        /\ start + Len(word) - 1 <= Len(s)
        /\ SubSeq(s, start, start + Len(word) - 1) = word

HandlerReturned == "statusCode" \in DOMAIN response

\* An S3 call outcome that reports the object as not found.
IsNotFound(outcome) ==
    /\ outcome.kind = "ClientError"
    /\ outcome.code \in {<<"N","o","S","u","c","h","K","e","y">>, <<"4","0","4">>}

\* An S3 call outcome that is an error other than not-found.
IsBackendFailure(outcome) == outcome.kind # "ok" /\ ~IsNotFound(outcome)

\* The expiry the environment asks for, in seconds.
ConfiguredExpiry ==
    CASE env.PRESIGNED_URL_EXPIRY = Missing -> 3600
      [] env.PRESIGNED_URL_EXPIRY = <<"3","6","0","0">> -> 3600
      [] env.PRESIGNED_URL_EXPIRY = <<"6","0">> -> 60
      [] OTHER -> 0

\* C7: when the key built from the resolved (platform, arch) is in the bucket
\* and no S3 call raised, the response is a 302 whose Location header is the
\* URL pre-signed for exactly that bucket and key with the configured expiry
\* (3600 s when PRESIGNED_URL_EXPIRY is unset), and the body's url field
\* equals the Location header.
C7_PresentObjectRedirects ==
    (/\ op = "download"
     /\ resolved.status = "returned"
     /\ binary_key \in bucket
     /\ \A i \in 1..Len(calls) : calls[i].outcome.kind = "ok")
        => /\ HandlerReturned
           /\ response.statusCode = 302
           /\ response.headers["Location"] =
                 [method |-> "get_object", Bucket |-> env.BUCKET_NAME,
                  Key |-> binary_key, ExpiresIn |-> ConfiguredExpiry]
           /\ Len(response.headers["Location"].Key) > 0
           /\ response.body.url = response.headers["Location"]

\* C7 witness: platform=linux&arch=amd64 against a bucket that holds
\* appinit-linux-amd64, PRESIGNED_URL_EXPIRY unset: a 302 signed for 3600 s.
C7_Witness ==
    /\ op = "download"
    /\ env.PRESIGNED_URL_EXPIRY = Missing
    /\ event.queryStringParameters.platform = S_linux
    /\ event.queryStringParameters.arch = S_amd64
    /\ HandlerReturned
    /\ response.statusCode = 302
    /\ response.headers["Location"].Key = K_linux_amd64
    /\ response.headers["Location"].ExpiresIn = 3600

\* C8: when head_object reports the resolved key as not found (error code
\* NoSuchKey or 404), the response is a 404 whose body names the resolved
\* platform/arch in its error field and points to the /list endpoint, and it
\* carries no Location header.
C8_AbsentObjectGives404 ==
    (/\ op = "download"
     /\ Len(calls) >= 1
     /\ calls[1].api = "head_object"
     /\ IsNotFound(calls[1].outcome))
        => /\ HandlerReturned
           /\ response.statusCode = 404
           /\ response.body.error =
                 <<"B","i","n","a","r","y"," ","n","o","t"," ","f","o","u","n","d"," ","f","o","r"," ">>
                 \o resolved.platform \o <<"/">> \o resolved.arch
           /\ Occurs(response.body.available_binaries, <<"/","l","i","s","t">>)
           /\ "headers" \notin DOMAIN response
           /\ Len(calls) = 1

\* C8 witness: a request for freebsd/amd64 against the released binaries,
\* the backend answering NoSuchKey.
C8_Witness ==
    /\ op = "download"
    /\ Len(calls) = 1
    /\ calls[1].outcome = ClientError(S_NoSuchKey)
    /\ calls[1].Key = K_freebsd_amd64
    /\ K_freebsd_amd64 \notin bucket
    /\ HandlerReturned
    /\ response.statusCode = 404

\* C9: when head_object or generate_presigned_url raises an error other than
\* not-found, the response is a 500 with the fixed body
\* {"error": "Internal server error"}, which holds no part of the error code,
\* the bucket name or the key.
C9_BackendFailureGivesGeneric500 ==
    (/\ op = "download"
     /\ \E i \in 1..Len(calls) : IsBackendFailure(calls[i].outcome))
        => /\ HandlerReturned
           /\ response.statusCode = 500
           /\ response.body =
                 [error |-> <<"I","n","t","e","r","n","a","l"," ","s","e","r","v","e","r",
                              " ","e","r","r","o","r">>]
           /\ "headers" \notin DOMAIN response
           /\ \A i \in 1..Len(calls) :
                 /\ Len(calls[i].outcome.code) > 0 =>
                       ~Occurs(response.body.error, calls[i].outcome.code)
                 /\ ~Occurs(response.body.error, calls[i].Bucket)
                 /\ ~Occurs(response.body.error, calls[i].Key)

\* C9 witness: the existence check succeeded and URL generation raised a
\* ClientError with code 403.
C9_Witness ==
    /\ op = "download"
    /\ Len(calls) = 2
    /\ calls[1].outcome.kind = "ok"
    /\ calls[2].api = "generate_presigned_url"
    /\ calls[2].outcome = ClientError(X_403)
    /\ HandlerReturned
    /\ response.statusCode = 500

KnownPlatforms == {<<"l","i","n","u","x">>, <<"d","a","r","w","i","n">>,
                   <<"w","i","n","d","o","w","s">>}

KnownArchs == {<<"a","m","d","6","4">>, <<"a","r","m","6","4">>}

\* The keys appinit-{platform}-{arch}[.exe] of the known platforms and
\* architectures (.exe on the windows binaries).
StandardKeys ==
    {<<"a","p","p","i","n","i","t","-">> \o p \o <<"-">> \o a
        \o (IF p = <<"w","i","n","d","o","w","s">> THEN <<".","e","x","e">> ELSE <<>>) :
        p \in KnownPlatforms, a \in KnownArchs}

\* The request supplies a platform or an arch outside the known sets.
SuppliesUnknownValue(ev) ==
    \/ PlatformSupplied(ev) /\ ev.queryStringParameters.platform \notin KnownPlatforms
    \/ ArchSupplied(ev) /\ ev.queryStringParameters.arch \notin KnownArchs

\* The function's environment names the bucket and a numeric expiry (or none).
EnvironmentConfigured ==
    /\ env.BUCKET_NAME # Missing
    /\ env.PRESIGNED_URL_EXPIRY \in {Missing, <<"3","6","0","0">>, <<"6","0">>}

\* C10 (as claimed): against a bucket that holds only standard keys, every
\* download request that supplies an unknown platform or arch gets status 404
\* (the function configured, the backend answering the existence check
\* without a failure).
C10_UnknownValuesGet404 ==
    (/\ op = "download"
     /\ EnvironmentConfigured
     /\ bucket \subseteq StandardKeys
     /\ SuppliesUnknownValue(event)
     /\ \A i \in 1..Len(calls) : ~IsBackendFailure(calls[i].outcome))
        => /\ HandlerReturned
           /\ response.statusCode = 404

\* What holds of C10's requests in the code: a request that the handler
\* answers at all is answered 404, never 302.
C10_AnsweredUnknownValuesGet404 ==
    (/\ op = "download"
     /\ bucket \subseteq StandardKeys
     /\ SuppliesUnknownValue(event)
     /\ HandlerReturned
     /\ \A i \in 1..Len(calls) : ~IsBackendFailure(calls[i].outcome))
        => response.statusCode = 404

-----------------------------------------------------------------------------
(* The list handler. *)

\* The ISO-8601 text of the timestamps of the listings, '' for none.
ExpectedTimestamp(dt) ==
    CASE dt = D_2024 -> <<"2","0","2","4","-","0","1","-","0","5","T","0","9",":","0","3",":","0","7","+","0","0",":","0","0">>
      [] dt = D_2025 -> <<"2","0","2","5","-","1","2","-","3","1","T","2","3",":","5","9",":","4","0","+","0","0",":","0","0">>
      [] dt = NoDatetime -> S_empty

ListingCalls == {i \in 1..Len(calls) : calls[i].api = "list_objects_v2"}

ListingSucceeded == Len(calls) = 1 /\ calls[1].outcome.kind = "ok"

\* The objects of the response of a listing call.
ContentsOf(listed) ==
    IF "Contents" \in DOMAIN listed THEN listed.Contents ELSE <<>>

\* The response to a listing call that succeeded: 200, one entry per object
\* of the call's response, in its order; nothing beyond the first page.
ListSuccessResponse ==
    LET listed == ContentsOf(calls[1].outcome.response)
        binaries == response.body.binaries
    IN  /\ response.statusCode = 200
        /\ Len(binaries) = Len(listed)
        /\ \A i \in 1..Len(listed) :
              /\ DOMAIN binaries[i] = {"name", "size", "last_modified"}
              /\ binaries[i].name = listed[i].Key
              /\ binaries[i].size = listed[i].Size
              /\ binaries[i].last_modified = ExpectedTimestamp(listed[i].LastModified)
        /\ (metadata = <<>> => binaries = <<>>)
        /\ Len(binaries) <= MaxKeysPerPage
        /\ \A i \in 1..Len(binaries) : binaries[i].name = metadata[i].Key
        /\ (Len(metadata) <= MaxKeysPerPage => Len(binaries) = Len(metadata))

\* C13 as stated: every invocation of the list handler issues exactly one
\* listing call and, when it succeeds, returns 200 with one entry per object of
\* the call's response (name, size, ISO-8601 last_modified or ''), in order.
C13_ExactlyOneListingCall ==
    op = "list" =>
        /\ Cardinality(ListingCalls) = 1
        /\ Len(calls) = 1
        /\ (ListingSucceeded => ListSuccessResponse)

\* C13, amended: the list handler issues no call but listing calls, exactly one
\* when BUCKET_NAME is set and none when it is unset; when the call succeeds the
\* response is 200 with a 'binaries' array of one entry per object of the
\* call's response, in the same order, with name = key, size = byte size and
\* last_modified = the ISO-8601 timestamp or '' when unavailable; an empty
\* bucket gives an empty array and objects beyond a truncated first page are
\* not returned.
C13_OneListingCallWhenConfigured ==
    op = "list" =>
        /\ Cardinality(ListingCalls) = Len(calls)
        /\ Len(calls) = (IF env.BUCKET_NAME = Missing THEN 0 ELSE 1)
        /\ (ListingSucceeded => ListSuccessResponse)

C13_Witness ==
    /\ op = "list"
    /\ ListingSucceeded
    /\ response.statusCode = 200
    /\ Len(metadata) > MaxKeysPerPage
    /\ Len(response.body.binaries) = MaxKeysPerPage
    /\ \E i, j \in 1..Len(response.body.binaries) :
          /\ response.body.binaries[i].last_modified = S_empty
          /\ response.body.binaries[j].last_modified # S_empty

ListingFailed ==
    \/ env.BUCKET_NAME = Missing
    \/ Len(calls) = 1 /\ calls[1].outcome.kind # "ok"

\* C14: when the listing call fails, or BUCKET_NAME is missing, the list
\* handler answers 500 with a body whose only field, 'error', is the message
\* of the error; the body has no 'binaries'.
C14_ListFailureGives500WithMessage ==
    (op = "list" /\ ListingFailed) =>
        /\ response.statusCode = 500
        /\ DOMAIN response.body = {"error"}
        /\ response.body.error =
              (IF env.BUCKET_NAME = Missing
               THEN <<"'","B","U","C","K","E","T","_","N","A","M","E","'">>
               ELSE calls[1].outcome.message)

C14_Witness ==
    /\ op = "list"
    /\ metadata # <<>>
    /\ Len(calls) = 1
    /\ calls[1].outcome.kind = "ClientError"
    /\ response.statusCode = 500
    /\ response.body.error = X_AccessDeniedMessage

-----------------------------------------------------------------------------
(* The install handler. *)

RoutingContext == event.requestContext

\* The domain name and stage the routing context of the request gives, with
\* the default for each one that is absent.
ExpectedDomainName ==
    IF RoutingContext.kind = "dict" /\ RoutingContext.domainName # Missing
    THEN RoutingContext.domainName
    ELSE <<"l","o","c","a","l","h","o","s","t">>

ExpectedStage ==
    IF RoutingContext.kind = "dict" /\ RoutingContext.stage # Missing
    THEN RoutingContext.stage
    ELSE <<"d","e","v">>

ExpectedDownloadUrl ==
    <<"h","t","t","p","s",":","/","/">> \o ExpectedDomainName \o <<"/">> \o ExpectedStage
    \o <<"/","d","o","w","n","l","o","a","d","?","p","l","a","t","f","o","r","m","=","$","O","S","&","a","r","c","h","=","$","A","R","C","H">>

\* The script rendered for a request without routing context.
ReferenceScript == generate_install_script(S_localhost, S_dev)

\* The lines of a script that hold the URL.
UrlLines(script, url) == {i \in 1..Len(script) : contains(script[i], url)}

ScriptRendersDownloadUrl ==
    /\ UrlLines(response.body, ExpectedDownloadUrl) # {}
    /\ Len(response.body) = Len(ReferenceScript)
    /\ \A i \in 1..Len(ReferenceScript) :
          \/ response.body[i] = ReferenceScript[i]
          \/ i \in UrlLines(response.body, ExpectedDownloadUrl)
    /\ Cardinality(UrlLines(response.body, ExpectedDownloadUrl)) = 1

\* C15: for every routing context the install handler returns a script that
\* contains https://{domainName}/{stage}/download?platform=$OS&arch=$ARCH, with
\* domainName and stage of the routing context, each defaulting on its own to
\* localhost and dev when absent; the rest of the script is the same for
\* every request.
C15_ScriptRendersDownloadUrl ==
    op = "install" => (HandlerReturned /\ ScriptRendersDownloadUrl)

\* The rendering of the requests the install handler answers.
C15_AnsweredRequestsRenderDownloadUrl ==
    (op = "install" /\ HandlerReturned) => ScriptRendersDownloadUrl

\* C16: for every request the install handler returns 200 with Content-Type
\* text/plain, a Content-Disposition that suggests the filename install.sh,
\* and the rendered script as the body.
C16_InstallAlwaysReturns200 ==
    op = "install" =>
        /\ HandlerReturned
        /\ response.statusCode = 200
        /\ response.headers["Content-Type"] = <<"t","e","x","t","/","p","l","a","i","n">>
        /\ contains(response.headers["Content-Disposition"], <<"f","i","l","e","n","a","m","e","=","\"","i","n","s","t","a","l","l",".","s","h","\"">>)
        /\ response.body = generate_install_script(ExpectedDomainName, ExpectedStage)

\* The responses of the install handler to the requests it answers.
C16_AnsweredRequestsGet200 ==
    (op = "install" /\ HandlerReturned) =>
        /\ response.statusCode = 200
        /\ response.headers["Content-Type"] = <<"t","e","x","t","/","p","l","a","i","n">>
        /\ contains(response.headers["Content-Disposition"], <<"f","i","l","e","n","a","m","e","=","\"","i","n","s","t","a","l","l",".","s","h","\"">>)
        /\ response.body = generate_install_script(ExpectedDomainName, ExpectedStage)

-----------------------------------------------------------------------------
(* The service. *)

Finished(i) == procs[i].pc = "done"

Answered(i, status) ==
    /\ Finished(i)
    /\ "statusCode" \in DOMAIN procs[i].response
    /\ procs[i].response.statusCode = status

\* C11: whatever the event, the environment and the outcome of the backend,
\* each of the three lambda_handler functions returns a response with a status
\* code; none raises.
C11_NoExceptionCrossesHandler ==
    \A i \in Slots : Finished(i) => "statusCode" \in DOMAIN procs[i].response

\* The calls the handlers are said to issue: the existence check, the listing
\* and the local generation of the URL.
ReadOnlyCalls == {"head_object", "list_objects_v2", "generate_presigned_url"}

\* C12: no step of any invocation of the download, list and install handlers
\* changes the objects of the bucket (keys, sizes, timestamps), whatever the
\* outcomes, and the handlers issue only head_object, list_objects_v2 and
\* generate_presigned_url.
C12_HandlersNeverMutateStorage ==
    [][/\ metadata' = metadata
       /\ bucket' = bucket
       /\ \A i \in Slots : \A k \in 1..Len(procs'[i].calls) :
             procs'[i].calls[k].api \in ReadOnlyCalls]_vars

C12_Witness ==
    \E i, j \in Slots :
        /\ Answered(i, 302) /\ procs[i].handler = "download"
        /\ Len(procs[i].calls) = 2
        /\ Answered(j, 200) /\ procs[j].handler = "list"
        /\ metadata \in ServiceListings

\* The outcome of the request of a slot when its handler runs alone, from the
\* first line to the last, against the same environment, bucket and backend.
RunAlone(proc) ==
    CASE proc.handler = "download" ->
            LET out == lambda_handler(proc.event, env, bucket, proc.s3)
            IN  [response |-> out.response, calls |-> out.calls]
      [] proc.handler = "list" ->
            list_lambda_handler(env, metadata, MaxKeysPerPage, proc.s3)
      [] proc.handler = "install" ->
            install_lambda_handler(proc.event)

SameRequest(i, j) ==
    /\ procs[i].handler = procs[j].handler
    /\ procs[i].event = procs[j].event
    /\ procs[i].s3 = procs[j].s3

-----------------------------------------------------------------------------
(* The stack and the upload tool. *)

StackEntered == stack.pc \in {"running", "raised", "done"}

\* The three routes of the API, each with its own function.
ProvisionedRoutes ==
    {[path |-> "download", http_method |-> "GET", handler |-> "AppInitDownloadHandler"],
     [path |-> "list", http_method |-> "GET", handler |-> "AppInitListHandler"],
     [path |-> "install", http_method |-> "GET", handler |-> "AppInitInstallHandler"]}

\* C18: constructing BinaryDistributionStack completes without an exception,
\* every key it looks up in CONFIG.lambda_config.function_names and .handlers
\* ('download', 'list', 'install') has an entry, and the constructed stack has
\* one function bound to each of GET /download, GET /list and GET /install.
C18_StackProvisionsAllHandlers ==
    StackEntered =>
        /\ stack.pc # "raised"
        /\ \A key \in stack.lookups :
              key \in DOMAIN function_names /\ key \in DOMAIN handlers
        /\ (stack.pc = "done" =>
              /\ stack.routes = ProvisionedRoutes
              /\ \A r \in stack.routes : \E f \in stack.functions : f.id = r.handler)

ToolEntered == deploy.pc \in {"outputs", "build", "upload", "exit1", "raised", "done"}

\* Every target was built and every upload returned True.
FullySuccessfulRun ==
    /\ deploy.pc = "done"
    /\ Len(deploy.built_files) = Len(TARGETS)
    /\ Len(deploy.uploads) = Len(TARGETS)
    /\ \A i \in 1..Len(deploy.uploads) : deploy.uploads[i].outcome = "ok"

\* A call of the invocation met a fault of the backend.
BackendFaulted ==
    \E i \in 1..Len(calls) : calls[i].outcome \in {ClientError(X_403), OtherException}

\* C19: for every target the key a built file is uploaded under is the key
\* _construct_binary_key gives for its (goos, goarch), and after a run in which
\* every target was built and uploaded a download request for any target is
\* answered 302.
C19_UploadKeysMatchDownloadKeys ==
    ToolEntered =>
        /\ \A i \in 1..Len(deploy.built_files) :
              deploy.built_files[i].name =
                  construct_binary_key(deploy.built_files[i].goos,
                                       deploy.built_files[i].goarch)
        /\ \A i \in 1..Len(deploy.uploads) :
              deploy.uploads[i].key =
                  construct_binary_key(deploy.uploads[i].goos, deploy.uploads[i].goarch)
        /\ ((op = "download" /\ FullySuccessfulRun /\ ~BackendFaulted) =>
              /\ HandlerReturned
              /\ response.statusCode = 302)

C19_Witness ==
    /\ op = "download"
    /\ FullySuccessfulRun
    /\ HandlerReturned
    /\ response.statusCode = 302
    /\ binary_key = K_windows_amd64
    /\ K_windows_amd64 \in bucket

-----------------------------------------------------------------------------
(* The dependency refresher. *)

\* The constraint of a dependency holds a marker of a strict lock.
Protected(dep) ==
    \/ Occurs(dep, <<"=","=">>)
    \/ Occurs(dep, <<"^">>)
    \/ Occurs(dep, <<"~","=">>)
    \/ Occurs(dep, <<"<">>)

\* The package a dependency string of the samples names.
PackageOf(dep) ==
    CASE dep = D_flask -> <<"f","l","a","s","k">>
      [] dep = D_boto3 -> <<"b","o","t","o","3">>
      [] dep = D_requests -> <<"r","e","q","u","e","s","t","s">>
      [] dep = D_django -> <<"d","j","a","n","g","o">>
      [] dep = D_numpy -> <<"n","u","m","p","y">>
      [] dep = D_urllib3 -> <<"u","r","l","l","i","b","3">>
      [] dep = D_poetry -> <<"p","o","e","t","r","y","-","c","o","r","e">>

CommandsFor(pkg) ==
    {k \in 1..Len(refresher.commands) : refresher.commands[k].pkg = pkg}

IsCommand(k, verb, pkg) ==
    /\ k \in 1..Len(refresher.commands)
    /\ refresher.commands[k].cmd[2] = verb
    /\ refresher.commands[k].pkg = pkg

\* uv remove of the package was run and, when it succeeded, uv add of the
\* package right after it.
Cycled(pkg) ==
    \E k \in 1..Len(refresher.commands) :
        /\ IsCommand(k, "remove", pkg)
        /\ (refresher.commands[k].success => IsCommand(k + 1, "add", pkg))

RefresherEntered == refresher.pc \in {"filter", "remove", "add", "returned"}

\* C20: refresh_dependencies runs no uv command for a dependency whose
\* constraint holds '==', '^', '~=' or '<', and leaves it in the project; a
\* dependency with an open '>=' constraint or none is cycled: uv remove, then
\* uv add.
C20_ProtectedSkippedOpenCycled ==
    RefresherEntered =>
        \A i \in 1..Len(refresher.deps) :
            LET dep == refresher.deps[i]
            IN  /\ Protected(dep) =>
                      /\ CommandsFor(PackageOf(dep)) = {}
                      /\ \E k \in 1..Len(refresher.pyproject) : refresher.pyproject[k] = dep
                /\ (~Protected(dep) /\ refresher.pc = "returned") =>
                      Cycled(PackageOf(dep))

\* The filter as the code has it: a '<' protects only without a '>='.
ProtectedInCode(dep) ==
    \/ Occurs(dep, <<"=","=">>)
    \/ Occurs(dep, <<"^">>)
    \/ Occurs(dep, <<"~","=">>)
    \/ Occurs(dep, <<"<">>) /\ ~Occurs(dep, <<">","=">>)

C20_FilterOfTheCode ==
    RefresherEntered =>
        \A i \in 1..Len(refresher.deps) :
            LET dep == refresher.deps[i]
            IN  /\ ProtectedInCode(dep) =>
                      /\ CommandsFor(PackageOf(dep)) = {}
                      /\ \E k \in 1..Len(refresher.pyproject) : refresher.pyproject[k] = dep
                /\ (~ProtectedInCode(dep) /\ refresher.pc = "returned") =>
                      Cycled(PackageOf(dep))

-----------------------------------------------------------------------------
(* The order of the S3 calls of a download invocation. *)

CallsOf(i, api) ==
    {k \in 1..Len(procs[i].calls) : procs[i].calls[k].api = api}

\* The calls of slot i so far are in order: no URL generation without a
\* successful existence check of the same key before it, at most one URL
\* generation, and a 302 only for the key that was checked.
ChecksBeforeSigning(i) ==
    LET log == procs[i].calls
        signs == CallsOf(i, "generate_presigned_url")
    IN  /\ Cardinality(CallsOf(i, "head_object")) <= 1
        /\ Cardinality(signs) <= 1
        /\ \A k \in signs :
              /\ k > 1
              /\ log[1].api = "head_object"
              /\ log[1].outcome.kind = "ok"
              /\ log[1].Key = log[k].Key
              /\ log[k].Key = procs[i].binary_key
        /\ \A k \in CallsOf(i, "head_object") :
              /\ log[k].Key = procs[i].binary_key
              /\ (log[k].outcome.kind # "ok" => signs = {})
        /\ Answered(i, 302) =>
              /\ signs # {}
              /\ log[1].outcome.kind = "ok"
              /\ procs[i].response.headers["Location"].Key = log[1].Key

-----------------------------------------------------------------------------
(* The accounting of refresh_dependencies. *)

\* The dependencies of the call that the filter of the code lets through.
UpdatableIn(deps) == {i \in 1..Len(deps) : ~ProtectedInCode(deps[i])}

ChangesOf(pkg) ==
    {k \in 1..Len(refresher.version_changes) : refresher.version_changes[k][1] = pkg}

FailuresOf(pkg) ==
    {k \in 1..Len(refresher.failed) : refresher.failed[k][1] = pkg}

Ran(verb, pkg, success) ==
    \E k \in 1..Len(refresher.commands) :
        IsCommand(k, verb, pkg) /\ refresher.commands[k].success = success

TimesRun(verb, pkg) ==
    Cardinality({k \in 1..Len(refresher.commands) : IsCommand(k, verb, pkg)})

\* No dependency of the project names the package.
AbsentFromProject(pkg) ==
    \A k \in 1..Len(refresher.pyproject) :
        \/ Len(refresher.pyproject[k]) < Len(pkg)
        \/ SubSeq(refresher.pyproject[k], 1, Len(pkg)) # pkg

\* C26: when refresh_dependencies returns, every updatable dependency was
\* processed once and is in exactly one of version_changes (remove and add
\* succeeded) and failed (tagged with the command that failed), skipped
\* dependencies are in neither, uv add ran for a package exactly when its
\* uv remove succeeded, len(version_changes) + len(failed) is the number of
\* updatable dependencies, and a package whose add failed after its remove is
\* absent from the project and in failed.
C26_RefreshAccounting ==
    (RefresherEntered /\ refresher.pc = "returned") =>
        /\ Len(refresher.version_changes) + Len(refresher.failed)
              = Cardinality(UpdatableIn(refresher.deps))
        /\ \A i \in 1..Len(refresher.deps) :
              LET pkg == PackageOf(refresher.deps[i])
              IN  IF i \in UpdatableIn(refresher.deps)
                  THEN /\ TimesRun("remove", pkg) = 1
                       /\ TimesRun("add", pkg) = (IF Ran("remove", pkg, TRUE) THEN 1 ELSE 0)
                       /\ Cardinality(ChangesOf(pkg)) + Cardinality(FailuresOf(pkg)) = 1
                       /\ (ChangesOf(pkg) # {} <=>
                              (Ran("remove", pkg, TRUE) /\ Ran("add", pkg, TRUE)))
                       /\ \A k \in FailuresOf(pkg) :
                              /\ refresher.failed[k][2] = dep_type_of(refresher.is_dev)
                              /\ (refresher.failed[k][3] = "remove" <=>
                                     Ran("remove", pkg, FALSE))
                              /\ (refresher.failed[k][3] = "add" <=>
                                     (Ran("remove", pkg, TRUE) /\ Ran("add", pkg, FALSE)))
                       /\ ((Ran("remove", pkg, TRUE) /\ Ran("add", pkg, FALSE)) =>
                              (AbsentFromProject(pkg) /\ FailuresOf(pkg) # {}))
                  ELSE /\ TimesRun("remove", pkg) = 0
                       /\ TimesRun("add", pkg) = 0
                       /\ ChangesOf(pkg) = {}
                       /\ FailuresOf(pkg) = {}

C26_Witness ==
    /\ RefresherEntered
    /\ refresher.pc = "returned"
    /\ Len(refresher.deps) = 2
    /\ Len(refresher.version_changes) = 1
    /\ Len(refresher.failed) = 1
    /\ refresher.failed[1][3] = "add"
    /\ Len(refresher.pyproject) = 1

-----------------------------------------------------------------------------
(* The sequence of DependencyRefresher.run. *)

\* The number the module docstring (lines 19-25) gives a step of run; 0 for
\* what the list does not name.
DocumentedStep(entry) ==
    IF entry = "uv self update" THEN 1
    ELSE IF entry \in {"uv python list", "uv python install"} THEN 2
    ELSE IF entry = "refresh_dependencies" THEN 4
    ELSE IF entry = "print_report" THEN 5
    ELSE IF entry \in {"uv lock --upgrade", "uv venv --force"} THEN 6
    ELSE 0

RunEntered == op = "run"

\* C21: the steps of run occur in the documented sequence: uv self update,
\* the Python check, filtering and cycling of the dependencies, the report,
\* then the optional relock and rebuild of the virtual environment, which
\* come after the cycling and the report and never before uv self update.
C21_StepsInDocumentedOrder ==
    RunEntered =>
        /\ \A i, j \in 1..Len(refresher.trace) :
              (i < j /\ DocumentedStep(refresher.trace[i]) > 0
                     /\ DocumentedStep(refresher.trace[j]) > 0) =>
                  DocumentedStep(refresher.trace[i]) <= DocumentedStep(refresher.trace[j])
        /\ \A j \in 1..Len(refresher.trace) :
              DocumentedStep(refresher.trace[j]) = 6 =>
                  \E i, k \in 1..(j - 1) :
                      /\ refresher.trace[i] = "uv self update"
                      /\ refresher.trace[k] = "print_report"

-----------------------------------------------------------------------------
(* setup_github_oidc.py: the order of the IAM calls and the outcome of a run. *)

SetupEntered == op = "setup"

SetupCalls(api) == {k \in 1..Len(setup.calls) : setup.calls[k].api = api}

SetupCalled(api, outcome) ==
    {k \in SetupCalls(api) : setup.calls[k].outcome = outcome}

\* C24: in a run of main the provider is created only after the lookup
\* reported that it does not exist; create_role is attempted only after the
\* provider was found or created; a failed creation of the provider ends the
\* run with status 1 and no create_role; a wrong number of arguments ends it
\* with status 1 and no AWS call.
C24_ProviderBeforeRole ==
    SetupEntered =>
        /\ \A k \in SetupCalls("create_open_id_connect_provider") :
              \E j \in SetupCalled("get_open_id_connect_provider", "NoSuchEntity") : j < k
        /\ \A k \in SetupCalls("create_role") :
              \E j \in SetupCalled("get_open_id_connect_provider", "ok")
                          \cup SetupCalled("create_open_id_connect_provider", "ok") : j < k
        /\ SetupCalled("create_open_id_connect_provider", "failed") # {} =>
              /\ SetupCalls("create_role") = {}
              /\ setup.pc = "exited"
              /\ setup.status = "exit 1"
        /\ setup.argc # 2 =>
              /\ setup.calls = <<>>
              /\ setup.pc = "exited" => setup.status = "exit 1"
        /\ (setup.argc # 2 /\ setup.pc # "exited") => setup.pc = "main"

C24_Witness ==
    /\ SetupEntered
    /\ setup.runs = 2
    /\ SetupCalled("create_open_id_connect_provider", "ok") # {}
    /\ SetupCalls("create_role") # {}
    /\ setup.status = "exit 0"

\* C25: whenever a run reports success and prints a role ARN, the role
\* GitHubActions-AppInitBinaryDeploy exists and carries the inline policy
\* BinaryDeploymentPolicy.
C25_SuccessMeansRoleWithPolicy ==
    (SetupEntered /\ setup.status = "exit 0" /\ setup.role_arn_printed) =>
        /\ role_name \in iam.roles
        /\ <<role_name, PolicyName>> \in iam.role_policies

-----------------------------------------------------------------------------
(* The rendered install script on a machine. *)

ScriptEntered == op = "script"

\* The platform and the architecture the script is documented to derive from
\* the machine, `Missing` for a machine it does not support.
DocumentedPlatform(uname_s) ==
    IF uname_s = U_Linux THEN S_linux
    ELSE IF uname_s = U_Darwin THEN S_darwin
    ELSE Missing

DocumentedArch(uname_m) ==
    IF uname_m = M_x86_64 THEN S_amd64
    ELSE IF uname_m \in {S_aarch64, S_arm64} THEN S_arm64
    ELSE Missing

SupportedMachine ==
    /\ DocumentedPlatform(shell.uname_s) # Missing
    /\ DocumentedArch(shell.uname_m) # Missing

\* C22: the script sends at most one download request, and only with the
\* platform (darwin, linux) and the architecture (amd64 for x86_64, arm64 for
\* aarch64 and arm64) detected on the machine; on any other machine it exits
\* with status 1 and sends nothing; after the download the file is made
\* executable and then moved to /usr/local/bin exactly when that directory is
\* writable, else it stays in the current directory.
C22_DetectThenDownloadThenInstall ==
    ScriptEntered =>
        /\ Len(shell.requests) <= 1
        /\ \A k \in 1..Len(shell.requests) :
              /\ SupportedMachine
              /\ shell.requests[k].queryStringParameters.platform
                    = DocumentedPlatform(shell.uname_s)
              /\ shell.requests[k].queryStringParameters.arch
                    = DocumentedArch(shell.uname_m)
        /\ ~SupportedMachine =>
              /\ shell.pc \in {"OS", "ARCH", "case ARCH", "case OS", "exited"}
              /\ shell.pc = "exited" => shell.status = "exit 1"
        /\ shell.executable => shell.appinit # "absent" \/ shell.installed # "absent"
        /\ shell.appinit # "absent" \/ shell.installed # "absent" => Len(shell.requests) = 1
        /\ shell.installed # "absent" =>
              shell.executable /\ shell.usr_local_bin_writable
        /\ (shell.pc = "exited" /\ shell.status = "exit 0") =>
              /\ shell.executable
              /\ IF shell.usr_local_bin_writable
                 THEN shell.installed # "absent" /\ shell.appinit = "absent"
                 ELSE shell.installed = "absent" /\ shell.appinit # "absent"

C22_Witness ==
    /\ ScriptEntered
    /\ shell.uname_s = U_Darwin
    /\ shell.uname_m = S_arm64
    /\ shell.status = "exit 0"
    /\ shell.installed = "binary"
    /\ Len(shell.requests) = 1

\* C27: the file is made executable and moved to /usr/local/bin only when the
\* download fetched the binary; when /download answers 404 or 500 the script
\* stops before chmod and the move.
C27_InstallsOnlyFetchedBinary ==
    ScriptEntered =>
        /\ shell.executable => shell.http_status = 302
        /\ shell.installed \in {"absent", "binary"}
        /\ shell.http_status \in {404, 500} =>
              /\ ~shell.executable
              /\ shell.pc = "exited" => shell.status # "exit 0"

=============================================================================
